---------------------------- MODULE Spec2Model ----------------------------
(***************************************************************************)
(* A model of the board-game rule algebra of algchess.py.                  *)
(*                                                                         *)
(* Python values are carried as follows.                                   *)
(*   str          a sequence of one-character strings  ('^K' is <<"^","K">>)*)
(*   Location     a pair <<x, y>>                                          *)
(*   Board (dict) a sequence of items <<key, value>> in insertion order,   *)
(*                with no key twice                                        *)
(*   BoardKey     the set of a board's items (frozenset(board.items()))    *)
(*   Movement     a sequence of atoms; an atom is a record that is either  *)
(*                a slide (x, y) or a rotation count r                     *)
(*   Rule         a record with a kind and the fields of the five classes  *)
(*   an exception the flag err of the record an operation returns          *)
(***************************************************************************)
EXTENDS Integers, Sequences, FiniteSets, TLC

VARIABLES pc, rule, board, board0, move, pattern, out, raw, drule, dout, st, text

vars == <<pc, rule, board, board0, move, pattern, out, raw, drule, dout, st, text>>

(***************************************************************************)
(* Bounds of the model.                                                    *)
(***************************************************************************)
\* rows 0..MaxY of the boards the rules are applied to
MaxY == 2
\* largest at_least / at_most of the Repeat rules that are tried
MaxReps == 2

(***************************************************************************)
(* Python strings and dicts                                                *)
(***************************************************************************)
NoneVal == <<>>

\* name = value, followed by the statements that use the name: the value is
\* computed once, at the assignment
Let(value, Rest(_)) == Rest(value)

\* the default of g.get(..., '<notfound>') in match
NOTFOUND == <<"<", "n", "o", "t", "f", "o", "u", "n", "d", ">">>

\* a in b for two strings: b has a as a contiguous part
StrIn(a, b) ==
    \E i \in 0..(Len(b) - Len(a)) :
        \A j \in 1..Len(a) : b[i + j] = a[j]

DictKeys(d) == {d[i][1] : i \in DOMAIN d}

DictHas(d, k) == \E i \in DOMAIN d : d[i][1] = k

\* d.get(k, default)
DictGet(d, k, default) ==
    IF DictHas(d, k)
    THEN d[CHOOSE i \in DOMAIN d : d[i][1] = k][2]
    ELSE default

\* d[k] = v : an existing key keeps its place, a new key goes last
DictSet(d, k, v) ==
    IF DictHas(d, k)
    THEN [i \in DOMAIN d |-> IF d[i][1] = k THEN <<k, v>> ELSE d[i]]
    ELSE Append(d, <<k, v>>)

\* d.pop(k, None)
DictPop(d, k) ==
    LET keep(e) == e[1] # k
    IN  SelectSeq(d, keep)

\* d.update(e)
RECURSIVE DictUpdate(_, _)
DictUpdate(d, e) ==
    IF e = <<>> THEN d
    ELSE DictUpdate(DictSet(d, Head(e)[1], Head(e)[2]), Tail(e))

get_board_key(b) == {b[i] : i \in DOMAIN b}

SetMin(S) == CHOOSE x \in S : \A y \in S : x <= y
SetMax(S) == CHOOSE x \in S : \A y \in S : x >= y

get_board_bounds(b) ==
    IF b = <<>> THEN <<0, 0, 0, 0>>
    ELSE <<SetMin({k[1] : k \in DictKeys(b)}), SetMin({k[2] : k \in DictKeys(b)}),
           SetMax({k[1] : k \in DictKeys(b)}), SetMax({k[2] : k \in DictKeys(b)})>>

\* replace_piece(p0, p1, board): every square holding p0 now holds p1
replace_piece(p0, p1, b) ==
    [i \in DOMAIN b |-> IF b[i][2] = p0 THEN <<b[i][1], p1>> ELSE b[i]]

\* the mutant of unique_boards: nothing is dropped
unique_boards_keep_all(boards) == boards

\* unique_boards: found = {}; a board whose key is in found is skipped
RECURSIVE unique_boards_from(_, _, _)
unique_boards_from(boards, found, acc) ==
    IF boards = <<>> THEN acc
    ELSE LET key == get_board_key(Head(boards))
         IN  IF key \in found
             THEN unique_boards_from(Tail(boards), found, acc)
             ELSE unique_boards_from(Tail(boards), found \cup {key},
                                     Append(acc, Head(boards)))

unique_boards(boards) == unique_boards_from(boards, {}, <<>>)

(***************************************************************************)
(* Movement                                                                *)
(***************************************************************************)
Slide(x, y) == [rot |-> FALSE, x |-> x, y |-> y, r |-> 0]
Rot(r) == [rot |-> TRUE, x |-> 0, y |-> 0, r |-> r]

Movement_identity == <<>>
Movement_slide(x, y) == <<Slide(x, y)>>
Movement_rotate(r) == <<Rot(r % 4)>>

\* one quarter turn counter-clockwise, of a point or of a board square
Quarter(k, square) ==
    IF square THEN <<(0 - k[2]) - 1, k[1]>> ELSE <<0 - k[2], k[1]>>

\* for i in range(m): nothing happens when m <= 0
RECURSIVE Quarters(_, _, _)
Quarters(k, n, square) ==
    IF n <= 0 THEN k ELSE Quarters(Quarter(k, square), n - 1, square)

\* Movement.__call__ on a tuple
RECURSIVE Movement_call_point(_, _, _)
Movement_call_point(m, k, square) ==
    IF m = <<>> THEN k
    ELSE LET a == Head(m)
         IN  IF a.rot
             THEN Movement_call_point(Tail(m), Quarters(k, a.r, square), square)
             ELSE Movement_call_point(Tail(m), <<k[1] + a.x, k[2] + a.y>>, square)

\* Movement.__call__ on a dict: {self(k, square=True): v for k, v in other.items()}
RECURSIVE Movement_call_board_from(_, _, _)
Movement_call_board_from(m, b, acc) ==
    IF b = <<>> THEN acc
    ELSE Movement_call_board_from(m, Tail(b),
             DictSet(acc, Movement_call_point(m, Head(b)[1], TRUE), Head(b)[2]))

Movement_call_board(m, b) == Movement_call_board_from(m, b, <<>>)

\* Movement.__call__ on a str
Movement_call_piece(m, piece) == piece

(***************************************************************************)
(* match, find, replace, delete, find_and_replace                          *)
(***************************************************************************)
match(f, g, addx, addy) ==
    \A i \in DOMAIN f :
        LET k == f[i][1]
            c == f[i][2]
        IN  StrIn(DictGet(g, <<k[1] + addx, k[2] + addy>>, NOTFOUND), c)
                # (c[1] = "^")

\* the anchor loop of find: the values of k and c when the loop is left
RECURSIVE find_anchor(_, _, _)
find_anchor(f, i, c) ==
    IF i > Len(f) THEN [k |-> f[Len(f)][1], c |-> c]
    ELSE LET c1 == f[i][2]
         IN  IF c1[1] = "^" THEN find_anchor(f, i + 1, c)
             ELSE IF Len(c1) = 1 /\ c1 # <<".">>
                  THEN [k |-> f[i][1], c |-> c1]
                  ELSE find_anchor(f, i + 1, c1)

\* a mutant of find_offsets: the full match is not verified
find_offsets_unverified(f, g, a) ==
    LET hit(e) == StrIn(e[2], a.c)
        hits == SelectSeq(g, hit)
    IN  [i \in DOMAIN hits |->
            <<hits[i][1][1] - a.k[1], hits[i][1][2] - a.k[2]>>]

\* the list comprehension of find, as offsets (dx, dy)
find_offsets(f, g, a) ==
    LET hit(e) == StrIn(e[2], a.c)
                  /\ match(f, g, e[1][1] - a.k[1], e[1][2] - a.k[2])
        hits == SelectSeq(g, hit)
    IN  [i \in DOMAIN hits |->
            <<hits[i][1][1] - a.k[1], hits[i][1][2] - a.k[2]>>]

\* a mutant of find: a pattern with nothing to search for is found nowhere
find_unchecked(f, g) ==
    IF f = <<>> THEN [err |-> FALSE, moves |-> <<>>]
    ELSE Let(find_anchor(f, 1, NoneVal), LAMBDA a :
             IF a.c = NoneVal THEN [err |-> FALSE, moves |-> <<>>]
             ELSE Let(find_offsets(f, g, a), LAMBDA offs :
                      [err |-> FALSE,
                       moves |-> [i \in DOMAIN offs |->
                                    Movement_slide(offs[i][1], offs[i][2])]]))

\* find(f, g): err stands for the ValueError; moves are the Movements found
find(f, g) ==
    IF f = <<>> THEN [err |-> TRUE, moves |-> <<>>]
    ELSE Let(find_anchor(f, 1, NoneVal), LAMBDA a :
             IF a.c = NoneVal THEN [err |-> TRUE, moves |-> <<>>]
             ELSE Let(find_offsets(f, g, a), LAMBDA offs :
                      [err |-> FALSE,
                       moves |-> [i \in DOMAIN offs |->
                                    Movement_slide(offs[i][1], offs[i][2])]]))

\* replace(f, g): g.update(f)
replace(f, g) == DictUpdate(g, f)

\* delete(f, kk)
RECURSIVE delete(_, _)
delete(f, kk) ==
    IF kk = <<>> THEN f ELSE delete(DictPop(f, Head(kk)), Tail(kk))

\* a mutant of find_and_replace_at: the pattern's squares are not deleted
find_and_replace_at_no_delete(f, g, h, m) == replace(Movement_call_board(m, g), h)

\* one element of the list find_and_replace builds, for the movement m
find_and_replace_at(f, g, h, m) ==
    replace(Movement_call_board(m, g),
            delete(h, [i \in DOMAIN f |-> Movement_call_point(m, f[i][1], FALSE)]))

find_and_replace(f, g, h) ==
    Let(find(f, h), LAMBDA found :
        [err |-> found.err,
         boards |-> [i \in DOMAIN found.moves |->
                        find_and_replace_at(f, g, h, found.moves[i])]])

(***************************************************************************)
(* Rules                                                                   *)
(*                                                                         *)
(* Applying a rule gives a record: err (an exception left the call),       *)
(* boards (the list returned) and inb (the entries the dict that was       *)
(* passed in holds when the call is left); a call of a rule also keeps raw,*)
(* the list _apply gave before unique_boards.  A returned list may hold the*)
(* passed dict itself ([board] of the identity rule); it is carried by     *)
(* value, as the dict holds its entries again whenever a call is left.     *)
(***************************************************************************)
\* at_most = None
NoAtMost == -1

MkRule(kind, p, r, rules, piece, lo, hi, greedy) ==
    [kind |-> kind, pattern |-> p, replacement |-> r, rules |-> rules,
     piece |-> piece, at_least |-> lo, at_most |-> hi, greedy |-> greedy]

ShiftBoard(b, dx, dy) ==
    [i \in DOMAIN b |-> <<<<b[i][1][1] - dx, b[i][1][2] - dy>>, b[i][2]>>]

Min2(a, b) == IF a <= b THEN a ELSE b

\* FindAndReplaceRule.__init__ with raw=False
FindAndReplaceRule(p, r) ==
    LET pb == get_board_bounds(p)
        rb == get_board_bounds(r)
        min_x == Min2(pb[1], rb[1])
        min_y == Min2(pb[2], rb[2])
    IN  IF min_x # 0 \/ min_y # 0
        THEN MkRule("FindAndReplace", ShiftBoard(p, min_x, min_y),
                    ShiftBoard(r, min_x, min_y), <<>>, <<>>, 0, NoAtMost, FALSE)
        ELSE MkRule("FindAndReplace", p, r, <<>>, <<>>, 0, NoAtMost, FALSE)

OneOfRule(rules) == MkRule("OneOf", <<>>, <<>>, rules, <<>>, 0, NoAtMost, FALSE)

SequentialRule(rules) == MkRule("Sequential", <<>>, <<>>, rules, <<>>, 0, NoAtMost, FALSE)

PieceOfInterestRule(piece, r) ==
    MkRule("PieceOfInterest", <<>>, <<>>, <<r>>, piece, 0, NoAtMost, FALSE)

\* RepeatRule.__init__, for at_most = None or at_most >= at_least
RepeatRule(r, at_least, at_most, greedy) ==
    MkRule("Repeat", <<>>, <<>>, <<r>>, <<>>, at_least, at_most, greedy)

\* the None that _parse returns when it runs off its end
NoneRule == MkRule("None", <<>>, <<>>, <<>>, <<>>, 0, NoAtMost, FALSE)

\* a mutant of RepeatRule_init: the two bounds are not compared
RepeatRule_init_unchecked(r, at_least, at_most, greedy) ==
    [err |-> FALSE, rule |-> RepeatRule(r, at_least, at_most, greedy)]

\* RepeatRule.__init__ for bounds that are naturals: "if at_most is not None
\* and at_most < at_least: raise TypeError"
RepeatRule_init(r, at_least, at_most, greedy) ==
    IF at_most # NoAtMost /\ at_most < at_least
    THEN [err |-> TRUE, rule |-> NoneRule]
    ELSE [err |-> FALSE, rule |-> RepeatRule(r, at_least, at_most, greedy)]

Rule_identity == FindAndReplaceRule(<<>>, <<>>)

\* Rule.__or__ and OneOfRule.__or__
Rule_or(a, b) ==
    IF a.kind = "OneOf"
    THEN IF b.kind = "OneOf" THEN OneOfRule(a.rules \o b.rules)
         ELSE OneOfRule(Append(a.rules, b))
    ELSE IF b.kind = "OneOf" THEN OneOfRule(<<a>> \o b.rules)
         ELSE OneOfRule(<<a, b>>)

\* Rule.__mul__ and SequentialRule.__mul__
Rule_mul(a, b) ==
    IF a.kind = "Sequential"
    THEN IF b.kind = "Sequential" THEN SequentialRule(a.rules \o b.rules)
         ELSE SequentialRule(Append(a.rules, b))
    ELSE IF b.kind = "Sequential" THEN SequentialRule(<<a>> \o b.rules)
         ELSE SequentialRule(<<a, b>>)

Rule_optionally(r, greedy) == RepeatRule(r, 0, 1, greedy)
Rule_zero_or_more(r, greedy) == RepeatRule(r, 0, NoAtMost, greedy)
Rule_one_or_more(r, greedy) == RepeatRule(r, 1, NoAtMost, greedy)
Rule_repeat(r, n, greedy) == RepeatRule(r, n, n, greedy)
Rule_between(r, at_least, at_most, greedy) == RepeatRule(r, at_least, at_most, greedy)

\* Rule.__pow__
Rule_pow(r, exp) == Rule_repeat(r, exp, FALSE)

RECURSIVE Rule_call(_, _)
RECURSIVE Rule_apply(_, _)

\* Rule.__call__ on a list of boards: every board is applied to in turn,
\* the first exception ends the call
RECURSIVE Rule_call_list_from(_, _, _)
Rule_call_list_from(r, boards, acc) ==
    IF boards = <<>> THEN acc
    ELSE Let(Rule_apply(r, Head(boards)), LAMBDA res :
             IF res.err
             THEN [err |-> TRUE, boards |-> <<>>,
                   inbs |-> Append(acc.inbs, res.inb) \o Tail(boards)]
             ELSE Rule_call_list_from(r, Tail(boards),
                      [err |-> FALSE, boards |-> acc.boards \o res.boards,
                       inbs |-> Append(acc.inbs, res.inb)]))

Rule_call_list(r, boards) ==
    IF r.kind = "None"
    THEN [err |-> TRUE, boards |-> <<>>, inbs |-> boards, raw |-> <<>>]
    ELSE Let(Rule_call_list_from(r, boards,
                 [err |-> FALSE, boards |-> <<>>, inbs |-> <<>>]), LAMBDA res :
             [err |-> res.err, boards |-> unique_boards(res.boards),
              inbs |-> res.inbs, raw |-> res.boards])

\* a mutant of FindAndReplaceRule_apply: the empty rule is searched for as
\* any other
FindAndReplaceRule_apply_always_find(r, b) ==
    Let(find_and_replace(r.pattern, r.replacement, b), LAMBDA res :
        [err |-> res.err, boards |-> res.boards, inb |-> b])

\* FindAndReplaceRule._apply: the rule with no pattern and no replacement
\* returns [board]
FindAndReplaceRule_apply(r, b) ==
    IF r.pattern = <<>> /\ r.replacement = <<>>
    THEN [err |-> FALSE, boards |-> <<b>>, inb |-> b]
    ELSE Let(find_and_replace(r.pattern, r.replacement, b), LAMBDA res :
             [err |-> res.err, boards |-> res.boards, inb |-> b])

\* a mutant of OneOfRule_apply_from: the first rule that gives a board is
\* the only one that counts
RECURSIVE OneOfRule_apply_from_first_hit(_, _, _)
OneOfRule_apply_from_first_hit(rules, b, acc) ==
    IF rules = <<>> THEN [err |-> FALSE, boards |-> acc, inb |-> b]
    ELSE Let(Rule_call(Head(rules), b), LAMBDA res :
             IF res.err THEN [err |-> TRUE, boards |-> <<>>, inb |-> res.inb]
             ELSE IF res.boards # <<>>
                  THEN [err |-> FALSE, boards |-> res.boards, inb |-> res.inb]
                  ELSE OneOfRule_apply_from_first_hit(Tail(rules), res.inb, acc))

\* OneOfRule._apply: boards.extend(rule(board)) for each rule
RECURSIVE OneOfRule_apply_from(_, _, _)
OneOfRule_apply_from(rules, b, acc) ==
    IF rules = <<>> THEN [err |-> FALSE, boards |-> acc, inb |-> b]
    ELSE Let(Rule_call(Head(rules), b), LAMBDA res :
             IF res.err THEN [err |-> TRUE, boards |-> <<>>, inb |-> res.inb]
             ELSE OneOfRule_apply_from(Tail(rules), res.inb, acc \o res.boards))

\* a mutant of OneOfRule_apply: the list starts as [board]
OneOfRule_apply_seeded(r, b) == OneOfRule_apply_from(r.rules, b, <<b>>)

OneOfRule_apply(r, b) == OneOfRule_apply_from(r.rules, b, <<>>)

\* a mutant of SequentialRule_apply_from: the rules after the first are
\* left out
SequentialRule_apply_from_first_only(rules, boards, inb, first) ==
    IF rules = <<>> THEN [err |-> FALSE, boards |-> boards, inb |-> inb]
    ELSE Let(Rule_call_list(Head(rules), boards), LAMBDA res :
             [err |-> res.err, boards |-> res.boards,
              inb |-> IF first THEN res.inbs[1] ELSE inb])

\* SequentialRule._apply: boards = rule(boards) for each rule; first tells
\* that boards is still the list [board] holding the dict passed in
RECURSIVE SequentialRule_apply_from(_, _, _, _)
SequentialRule_apply_from(rules, boards, inb, first) ==
    IF rules = <<>> THEN [err |-> FALSE, boards |-> boards, inb |-> inb]
    ELSE Let(Rule_call_list(Head(rules), boards), LAMBDA res :
         Let(IF first THEN res.inbs[1] ELSE inb, LAMBDA inb1 :
             IF res.err THEN [err |-> TRUE, boards |-> <<>>, inb |-> inb1]
             ELSE SequentialRule_apply_from(Tail(rules), res.boards, inb1, FALSE)))

SequentialRule_apply(r, b) == SequentialRule_apply_from(r.rules, <<b>>, b, TRUE)

PERCENT == <<"%">>

\* a mutant of PieceOfInterestRule_apply_at: no finally, the square is
\* restored only when the body returns
PieceOfInterestRule_apply_at_no_finally(r, b, location) ==
    Let(Rule_call(r.rules[1], DictSet(b, location, PERCENT)), LAMBDA res :
        [err |-> res.err, boards |-> res.boards,
         inb |-> IF res.err THEN res.inb ELSE DictSet(res.inb, location, r.piece)])

\* a mutant of PieceOfInterestRule_apply_at: the body sees the piece itself
PieceOfInterestRule_apply_at_unmarked(r, b, location) ==
    Let(Rule_call(r.rules[1], b), LAMBDA res :
        [err |-> res.err, boards |-> res.boards, inb |-> res.inb])

\* PieceOfInterestRule._apply_at: board[location] = '%'; try: return
\* self.rule(board); finally: board[location] = self.piece
PieceOfInterestRule_apply_at(r, b, location) ==
    Let(Rule_call(r.rules[1], DictSet(b, location, PERCENT)), LAMBDA res :
        [err |-> res.err, boards |-> res.boards,
         inb |-> DictSet(res.inb, location, r.piece)])

\* the loop of PieceOfInterestRule._apply over keys = list(board)
RECURSIVE PieceOfInterestRule_apply_from(_, _, _, _)
PieceOfInterestRule_apply_from(r, keys, b, acc) ==
    IF keys = <<>> THEN [err |-> FALSE, boards |-> acc, inb |-> b]
    ELSE IF DictGet(b, Head(keys), NoneVal) # r.piece
         THEN PieceOfInterestRule_apply_from(r, Tail(keys), b, acc)
         ELSE Let(PieceOfInterestRule_apply_at(r, b, Head(keys)), LAMBDA res :
                  IF res.err THEN [err |-> TRUE, boards |-> <<>>, inb |-> res.inb]
                  ELSE PieceOfInterestRule_apply_from(r, Tail(keys), res.inb,
                           acc \o [i \in DOMAIN res.boards |->
                                     replace_piece(PERCENT, r.piece, res.boards[i])]))

PieceOfInterestRule_apply(r, b) ==
    IF \E i \in DOMAIN b : b[i][2] = PERCENT
    THEN Rule_call(r.rules[1], b)
    ELSE PieceOfInterestRule_apply_from(r, [i \in DOMAIN b |-> b[i][1]], b, <<>>)

(***************************************************************************)
(* RepeatRule._apply.  The locals of the method are the fields of a record:*)
(* boards, all_boards, board_keys, i; done tells that the while loop has   *)
(* been left, err that the body raised, inb is the dict passed in.         *)
(***************************************************************************)
\* a mutant of RepeatRule_at_least: the rule is applied once at most
RepeatRule_at_least_once(r, n, boards, inb, first) ==
    IF n <= 0 THEN [err |-> FALSE, boards |-> boards, inb |-> inb]
    ELSE Let(Rule_call_list(r.rules[1], boards), LAMBDA res :
             [err |-> res.err, boards |-> res.boards,
              inb |-> IF first THEN res.inbs[1] ELSE inb])

\* boards = [board]; for i in range(self.at_least): boards = self.rule(boards)
RECURSIVE RepeatRule_at_least(_, _, _, _, _)
RepeatRule_at_least(r, n, boards, inb, first) ==
    IF n <= 0 THEN [err |-> FALSE, boards |-> boards, inb |-> inb]
    ELSE Let(Rule_call_list(r.rules[1], boards), LAMBDA res :
         Let(IF first THEN res.inbs[1] ELSE inb, LAMBDA inb1 :
             IF res.err THEN [err |-> TRUE, boards |-> <<>>, inb |-> inb1]
             ELSE RepeatRule_at_least(r, n - 1, res.boards, inb1, FALSE)))

\* a mutant of RepeatRule_start: the rule is applied once when at_least is 0
RepeatRule_start_applied(r, b) ==
    Let(RepeatRule_at_least(r, IF r.at_least = 0 THEN 1 ELSE r.at_least, <<b>>, b, TRUE),
        LAMBDA res :
        [boards |-> res.boards, all_boards |-> res.boards,
         board_keys |-> {get_board_key(res.boards[j]) : j \in DOMAIN res.boards},
         i |-> r.at_least, done |-> res.err, err |-> res.err, inb |-> res.inb])

\* a mutant of RepeatRule_start: board_keys holds the key of the board passed
\* in as well
RepeatRule_start_seeded(r, b) ==
    Let(RepeatRule_at_least(r, r.at_least, <<b>>, b, TRUE), LAMBDA res :
        [boards |-> res.boards, all_boards |-> res.boards,
         board_keys |-> {get_board_key(res.boards[j]) : j \in DOMAIN res.boards}
                            \cup {get_board_key(b)},
         i |-> r.at_least, done |-> res.err, err |-> res.err, inb |-> res.inb])

\* the method up to the while loop
RepeatRule_start(r, b) ==
    Let(RepeatRule_at_least(r, r.at_least, <<b>>, b, TRUE), LAMBDA res :
        [boards |-> res.boards, all_boards |-> res.boards,
         board_keys |-> {get_board_key(res.boards[j]) : j \in DOMAIN res.boards},
         i |-> r.at_least, done |-> res.err, err |-> res.err, inb |-> res.inb])

\* a mutant of RepeatRule_new_boards: a board is kept whether or not its
\* key is in board_keys
RepeatRule_new_boards_unfiltered(found, keys, acc) ==
    [new_boards |-> found,
     board_keys |-> keys \cup {get_board_key(found[j]) : j \in DOMAIN found}]

\* the for loop of an iteration: the boards of self.rule(boards) whose key
\* is not in board_keys, each key added as it is met
RECURSIVE RepeatRule_new_boards(_, _, _)
RepeatRule_new_boards(found, keys, acc) ==
    IF found = <<>> THEN [new_boards |-> acc, board_keys |-> keys]
    ELSE LET key == get_board_key(Head(found))
         IN  IF key \in keys
             THEN RepeatRule_new_boards(Tail(found), keys, acc)
             ELSE RepeatRule_new_boards(Tail(found), keys \cup {key},
                                        Append(acc, Head(found)))

\* a mutant of RepeatRule_collect: greedy is ignored
RepeatRule_collect_never_greedy(r, all_boards, new_boards) == all_boards \o new_boards

\* a mutant of RepeatRule_collect: every repeat is greedy
RepeatRule_collect_always_greedy(r, all_boards, new_boards) == new_boards

\* if self.greedy: all_boards = new_boards; else: all_boards.extend(new_boards)
RepeatRule_collect(r, all_boards, new_boards) ==
    IF r.greedy THEN new_boards ELSE all_boards \o new_boards

\* a mutant of RepeatRule_step: at_most is not looked at
RepeatRule_step_no_at_most(r, s) ==
    Let(Rule_call_list(r.rules[1], s.boards), LAMBDA res :
    Let(IF s.i = 0 THEN res.inbs[1] ELSE s.inb, LAMBDA inb1 :
    Let(RepeatRule_new_boards(res.boards, s.board_keys, <<>>), LAMBDA nb :
        IF res.err
        THEN [s EXCEPT !.done = TRUE, !.err = TRUE, !.inb = inb1]
        ELSE IF nb.new_boards = <<>>
             THEN [s EXCEPT !.done = TRUE, !.inb = inb1]
             ELSE [boards |-> nb.new_boards,
                   all_boards |-> RepeatRule_collect(r, s.all_boards, nb.new_boards),
                   board_keys |-> nb.board_keys,
                   i |-> s.i + 1, done |-> FALSE, err |-> FALSE, inb |-> inb1])))

\* one iteration of the while loop
RepeatRule_step(r, s) ==
    IF r.at_most # NoAtMost /\ s.i >= r.at_most
    THEN [s EXCEPT !.done = TRUE]
    ELSE Let(Rule_call_list(r.rules[1], s.boards), LAMBDA res :
         Let(IF s.i = 0 THEN res.inbs[1] ELSE s.inb, LAMBDA inb1 :
         Let(RepeatRule_new_boards(res.boards, s.board_keys, <<>>), LAMBDA nb :
             IF res.err
             THEN [s EXCEPT !.done = TRUE, !.err = TRUE, !.inb = inb1]
             ELSE IF nb.new_boards = <<>>
                  THEN [s EXCEPT !.done = TRUE, !.inb = inb1]
                  ELSE [boards |-> nb.new_boards,
                        all_boards |-> RepeatRule_collect(r, s.all_boards, nb.new_boards),
                        board_keys |-> nb.board_keys,
                        i |-> s.i + 1, done |-> FALSE, err |-> FALSE, inb |-> inb1])))

RECURSIVE RepeatRule_loop(_, _)
RepeatRule_loop(r, s) == IF s.done THEN s ELSE RepeatRule_loop(r, RepeatRule_step(r, s))

\* return unique_boards(all_boards)
RepeatRule_return(s) ==
    [err |-> s.err, boards |-> IF s.err THEN <<>> ELSE unique_boards(s.all_boards),
     inb |-> s.inb]

RepeatRule_apply(r, b) == RepeatRule_return(RepeatRule_loop(r, RepeatRule_start(r, b)))

\* the _apply of the rule's class; calling the None that parse_rule may
\* put in the place of a rule raises
Rule_apply(r, b) ==
    CASE r.kind = "FindAndReplace" -> FindAndReplaceRule_apply(r, b)
      [] r.kind = "OneOf" -> OneOfRule_apply(r, b)
      [] r.kind = "Sequential" -> SequentialRule_apply(r, b)
      [] r.kind = "PieceOfInterest" -> PieceOfInterestRule_apply(r, b)
      [] r.kind = "Repeat" -> RepeatRule_apply(r, b)
      [] r.kind = "None" -> [err |-> TRUE, boards |-> <<>>, inb |-> b]

\* Rule.__call__ on a dict: unique_boards(self._apply(boards))
Rule_call(r, b) ==
    Let(Rule_apply(r, b), LAMBDA res :
        [err |-> res.err, boards |-> unique_boards(res.boards), inb |-> res.inb,
         raw |-> res.boards])

(***************************************************************************)
(* The inputs that are tried                                               *)
(***************************************************************************)
DOT == <<".">>
PAWN == <<"p">>
KING == <<"K">>

\* every list of at most n different elements of S
RECURSIVE ListsOf(_, _)
ListsOf(S, n) ==
    IF n = 0 THEN {<<>>}
    ELSE LET shorter == ListsOf(S, n - 1)
         IN  shorter \cup {Append(l, e) : l \in shorter, e \in S}

HasNoKeyTwice(d) == \A i, j \in DOMAIN d : d[i][1] = d[j][1] => i = j

\* the patterns searched for: one or two squares, in either insertion
\* order, each a piece, the empty marker, a class or a negated class
FindKeys == {<<0, 0>>, <<1, 0>>, <<0, 1>>}
FindSpecs == {DOT, PAWN, <<".", "p">>, <<"^", "K">>}
FindPatterns ==
    {d \in ListsOf(FindKeys \X FindSpecs, 2) : HasNoKeyTwice(d)}

\* the boards searched in: three squares, each absent or holding a piece
RECURSIVE BoardsOver(_, _)
BoardsOver(keys, contents) ==
    IF keys = <<>> THEN {<<>>}
    ELSE LET rest == BoardsOver(Tail(keys), contents)
         IN  rest \cup {<<<<Head(keys), c>>>> \o b : c \in contents, b \in rest}

FindBoards == BoardsOver(<<<<0, 0>>, <<1, 0>>, <<0, 1>>>>, {DOT, PAWN, KING})

FindReplacements == {<<>>, <<<<<<0, 0>>, PAWN>>>>, <<<<<<0, 0>>, DOT>>, <<<<0, 1>>, PAWN>>>>}

(***************************************************************************)
(* SpecFind: find and find_and_replace on a pattern and a board            *)
(***************************************************************************)
Idle == [err |-> FALSE, boards |-> <<>>, inb |-> <<>>]

InitFind ==
    /\ pc = "start"
    /\ pattern \in FindPatterns
    /\ board \in FindBoards
    /\ board0 = board
    /\ rule = Rule_identity
    /\ move = Movement_identity
    /\ out = Idle
    /\ raw = <<>>
    /\ drule = Rule_identity
    /\ dout = Idle
    /\ st = <<>>
    /\ text = <<>>

\* find(pattern, board)
DoFind ==
    /\ pc = "start"
    /\ pc' = "found"
    /\ LET res == find(pattern, board)
       IN  /\ out' = [err |-> res.err, boards |-> <<>>, inb |-> board]
           /\ raw' = [i \in DOMAIN res.moves |->
                         Movement_call_point(res.moves[i], <<0, 0>>, FALSE)]
    /\ UNCHANGED <<rule, board, board0, move, pattern, drule, dout, st, text>>

\* find_and_replace(pattern, g, board)
DoFindAndReplace ==
    /\ pc = "start"
    /\ pc' = "replaced"
    /\ \E g \in FindReplacements :
        /\ rule' = MkRule("FindAndReplace", pattern, g, <<>>, <<>>, 0, NoAtMost, FALSE)
        /\ LET res == find_and_replace(pattern, g, board)
           IN  /\ out' = [err |-> res.err, boards |-> res.boards, inb |-> board]
               /\ raw' = res.boards
    /\ UNCHANGED <<board, board0, move, pattern, drule, dout, st, text>>

\* FindAndReplaceRule(pattern, g)(board)
DoApply ==
    /\ pc = "start"
    /\ pc' = "applied"
    /\ \E g \in FindReplacements :
        /\ rule' = FindAndReplaceRule(pattern, g)
        /\ out' = Rule_call(rule', board)
        /\ raw' = out'.raw
    /\ UNCHANGED <<board, board0, move, pattern, drule, dout, st, text>>

NextFind == DoFind \/ DoFindAndReplace \/ DoApply

SpecFind == InitFind /\ [][NextFind]_vars

(***************************************************************************)
(* What the claims say of find and of replace                              *)
(***************************************************************************)
IsNegated(c) == c[1] = "^"

\* a spec accepts a square: a positive spec a present square whose
\* character is in the class, a negated class a present character that is
\* not listed and an absent square
Accepts(c, b, k) ==
    IF IsNegated(c)
    THEN ~DictHas(b, k)
         \/ \A j \in 2..Len(c) : <<c[j]>> # DictGet(b, k, NoneVal)
    ELSE DictHas(b, k)
         /\ \E j \in 1..Len(c) : <<c[j]>> = DictGet(b, k, NoneVal)

MatchesAt(f, b, d) ==
    \A i \in DOMAIN f : Accepts(f[i][2], b, <<f[i][1][1] + d[1], f[i][1][2] + d[2]>>)

\* a pattern with a positive entry matches only where that entry meets a
\* square of the board
CandidateOffsets(f, b) ==
    {<<bk[1] - fk[1], bk[2] - fk[2]>> : bk \in DictKeys(b), fk \in DictKeys(f)}

MatchingOffsets(f, b) == {d \in CandidateOffsets(f, b) : MatchesAt(f, b, d)}

HasPositiveEntry(f) == \E i \in DOMAIN f : ~IsNegated(f[i][2])

\* C4: find returns exactly the offsets at which every entry of the pattern
\* is accepted, none missing, none extra, none repeated, whatever the order
\* of the pattern's entries
C4_FindExact ==
    (pc = "found" /\ HasPositiveEntry(pattern)) =>
        /\ ~out.err
        /\ {raw[i] : i \in DOMAIN raw} = MatchingOffsets(pattern, board)
        /\ \A i, j \in DOMAIN raw : raw[i] = raw[j] => i = j

\* the items of the successor the claim describes for the offset d
SuccessorItems(f, g, b, d) ==
    LET fk == {<<k[1] + d[1], k[2] + d[2]>> : k \in DictKeys(f)}
        gk == {<<k[1] + d[1], k[2] + d[2]>> : k \in DictKeys(g)}
    IN  {e \in get_board_key(b) : e[1] \notin fk /\ e[1] \notin gk}
        \cup {<<<<e[1][1] + d[1], e[1][2] + d[2]>>, e[2]>> : e \in get_board_key(g)}

\* C5: find_and_replace gives one successor per matching offset, and that
\* successor is the board with the pattern's squares removed and the
\* replacement's written, every other square as it was
C5_ReplaceFrame ==
    (pc = "replaced" /\ HasPositiveEntry(pattern)) =>
        /\ ~out.err
        /\ Len(out.boards) = Cardinality(MatchingOffsets(pattern, board))
        /\ \A d \in MatchingOffsets(pattern, board) :
              \E i \in DOMAIN out.boards :
                  get_board_key(out.boards[i])
                      = SuccessorItems(pattern, rule.replacement, board, d)

\* what find_and_replace does hold to: one successor per movement find
\* returns, each the successor the claim describes for that movement
C5_ReplaceFramePerFound ==
    (pc = "replaced" /\ ~out.err) =>
        LET found == find(pattern, board).moves
        IN  /\ Len(out.boards) = Len(found)
            /\ \A i \in DOMAIN found :
                  get_board_key(out.boards[i])
                      = SuccessorItems(pattern, rule.replacement, board,
                                       Movement_call_point(found[i], <<0, 0>>, FALSE))

\* C23: find raises and returns no movement on the empty pattern and on a
\* pattern whose entries are all negated classes, and so a FindAndReplaceRule
\* with an empty pattern and a replacement that is not empty raises when it
\* is applied and returns no board
C23_PatternShape ==
    /\ (pc = "found" /\ ~HasPositiveEntry(pattern)) => (out.err /\ raw = <<>>)
    /\ (pc = "applied" /\ rule.pattern = <<>> /\ rule.replacement # <<>>) =>
          (out.err /\ out.boards = <<>>)

C23_Witness ==
    /\ pc = "applied"
    /\ rule.pattern = <<>>
    /\ rule.replacement # <<>>
    /\ board # <<>>
    /\ out.err

(***************************************************************************)
(* The rules and boards that are applied                                   *)
(***************************************************************************)
\* c;. -> .;c : the piece c steps one square up
MoveUp(c) ==
    FindAndReplaceRule(<<<<<<0, 0>>, c>>, <<<<0, 1>>, DOT>>>>,
                       <<<<<<0, 0>>, DOT>>, <<<<0, 1>>, c>>>>)

\* p -> p : every match gives the board again
Stay == FindAndReplaceRule(<<<<<<0, 0>>, PAWN>>>>, <<<<<<0, 0>>, PAWN>>>>)

\* an empty pattern with a replacement: find raises
BadRule == FindAndReplaceRule(<<>>, <<<<<<0, 0>>, PAWN>>>>)

Atoms == {MoveUp(PAWN), MoveUp(PERCENT), Stay, Rule_identity, BadRule}

\* the rules that are repeated and that come second in a pair
Bodies == {MoveUp(PAWN), MoveUp(PERCENT), BadRule}

RepeatBounds ==
    {lh \in (0..MaxReps) \X ({NoAtMost} \cup (0..MaxReps)) :
        lh[2] = NoAtMost \/ lh[2] >= lh[1]}

RepeatsOf(bodies) ==
    {RepeatRule(a, lh[1], lh[2], g) : a \in bodies, lh \in RepeatBounds, g \in BOOLEAN}

Level1 ==
    {OneOfRule(<<a, b>>) : a \in Atoms, b \in Bodies}
    \cup {SequentialRule(<<a, b>>) : a \in Atoms, b \in Bodies}
    \cup RepeatsOf(Bodies)
    \cup {PieceOfInterestRule(PAWN, a) : a \in Atoms}

Level2 ==
    {PieceOfInterestRule(PAWN, r) : r \in Level1}
    \cup RepeatsOf({PieceOfInterestRule(PAWN, MoveUp(PERCENT))})
    \cup {SequentialRule(<<PieceOfInterestRule(PAWN, a), PieceOfInterestRule(PAWN, b)>>) :
             a, b \in Bodies}
    \cup {OneOfRule(<<>>), SequentialRule(<<>>)}

Rules == Atoms \cup Level1 \cup Level2

\* the columns of height MaxY + 1 over the given contents
RECURSIVE Columns(_, _, _)
Columns(x, y, contents) ==
    IF y > MaxY THEN {<<>>}
    ELSE {<<<<<<x, y>>, c>>>> \o col : c \in contents, col \in Columns(x, y + 1, contents)}

\* a second column: a pawn under empty squares
PawnColumn(x) ==
    [i \in 1..(MaxY + 1) |-> <<<<x, i - 1>>, IF i = 1 THEN PAWN ELSE DOT>>]

\* the boards: a first column of pawns and empty squares, its top square
\* maybe a K and its bottom square maybe the piece of interest, and a
\* second column or none
Boards ==
    LET plain == Columns(0, 0, {DOT, PAWN})
        first == plain
                 \cup {DictSet(col, <<0, MaxY>>, KING) : col \in plain}
                 \cup {DictSet(col, <<0, 0>>, PERCENT) : col \in plain}
    IN  first \cup {col \o PawnColumn(1) : col \in first}

(***************************************************************************)
(* The rules and boards of the module's examples                           *)
(***************************************************************************)
\* one line of parse_board(lines): for x, c in enumerate(line)
RECURSIVE parse_board_line(_, _, _, _)
parse_board_line(line, x, y, f) ==
    IF x >= Len(line) THEN f
    ELSE IF line[x + 1] = " " THEN parse_board_line(line, x + 1, y, f)
    ELSE parse_board_line(line, x + 1, y, DictSet(f, <<x, y>>, <<line[x + 1]>>))

\* for _y, line in enumerate(lines), with y = h - _y - 1
RECURSIVE parse_board_lines_from(_, _, _)
parse_board_lines_from(lines, i, f) ==
    IF i > Len(lines) THEN f
    ELSE parse_board_lines_from(lines, i + 1,
             parse_board_line(lines[i], 0, Len(lines) - i, f))

\* parse_board(lines) for a list of lines, the top line first, x0 = y0 = 0
parse_board_lines(lines) == parse_board_lines_from(lines, 1, <<>>)

ROOK == <<"R">>

pawn_move_rule ==
    FindAndReplaceRule(parse_board_lines(<<<<".">>, <<"p">>>>),
                       parse_board_lines(<<<<"p">>, <<".">>>>))

pawn_take_right_rule ==
    FindAndReplaceRule(parse_board_lines(<<<<" ", "K">>, <<"p">>>>),
                       parse_board_lines(<<<<" ", "p">>, <<".">>>>))

pawn_take_left_rule ==
    FindAndReplaceRule(parse_board_lines(<<<<"K">>, <<" ", "p">>>>),
                       parse_board_lines(<<<<"p">>, <<" ", ".">>>>))

pawn_rule == OneOfRule(<<pawn_move_rule, pawn_take_right_rule, pawn_take_left_rule>>)

move_once_rule ==
    FindAndReplaceRule(parse_board_lines(<<<<".">>, <<"%">>>>),
                       parse_board_lines(<<<<"%">>, <<".">>>>))

pawn_move_twice_rule == PieceOfInterestRule(PAWN, Rule_pow(move_once_rule, 2))

rook_move_rule == PieceOfInterestRule(ROOK, Rule_one_or_more(move_once_rule, FALSE))

\* a line of four squares: empty, of pawns, and empty but for c at x
EmptyLine == <<".", ".", ".", ".">>
PawnLine == <<"p", "p", "p", "p">>
LineWith(c, x) == [i \in 1..4 |-> IF i - 1 = x THEN c ELSE "."]

\* a K in the row over the pawns, and the board of the example with the
\* K over the third pawn
KingOverPawns(x) == parse_board_lines(<<EmptyLine, LineWith("K", x), PawnLine, EmptyLine>>)
S2Board == KingOverPawns(2)

\* a K two rows over the pawns
KingFarOverPawns(x) == parse_board_lines(<<LineWith("K", x), EmptyLine, PawnLine, EmptyLine>>)
S3Board == KingFarOverPawns(2)

\* the board of the rooks' example
S4Board ==
    parse_board_lines(<<EmptyLine, LineWith("K", 3), EmptyLine, <<"R", ".", ".", "R">>>>)

\* two columns: rooks, kings and empty squares, and rooks and empty squares
RookBoards ==
    {col \o [i \in DOMAIN col2 |-> <<<<1, col2[i][1][2]>>, col2[i][2]>>] :
        col \in Columns(0, 0, {DOT, ROOK, KING}), col2 \in Columns(0, 0, {DOT, ROOK})}
    \cup {S4Board}

Scenarios ==
    ({pawn_rule, pawn_move_rule, Rule_mul(pawn_move_rule, pawn_move_rule),
      SequentialRule(<<Rule_mul(pawn_move_rule, pawn_take_right_rule), pawn_move_rule>>)}
        \X {KingOverPawns(x) : x \in 0..3})
    \cup ({pawn_move_twice_rule} \X {KingFarOverPawns(x) : x \in 0..3})
    \cup ({rook_move_rule} \X RookBoards)

(***************************************************************************)
(* SpecApply: a rule is called on a board, or on a list of boards          *)
(***************************************************************************)
InitApply ==
    /\ pc = "start"
    /\ \E sc \in (Rules \X (Boards \cup {<<>>})) \cup Scenarios :
          /\ rule = sc[1]
          /\ board = sc[2]
    /\ board0 = board
    /\ pattern = <<>>
    /\ move = Movement_identity
    /\ out = Idle
    /\ raw = <<>>
    /\ drule = Rule_identity
    /\ dout = Idle
    /\ st = <<>>
    /\ text = <<>>

\* rule(board), the dict board being passed
Apply ==
    /\ pc = "start"
    /\ pc' = "applied"
    /\ out' = Rule_call(rule, board)
    /\ board' = out'.inb
    /\ raw' = out'.raw
    /\ UNCHANGED <<rule, board0, move, pattern, drule, dout, st, text>>

\* what the call left of the first dict of the list
OfFirst(res) ==
    [err |-> res.err, boards |-> res.boards, inb |-> res.inbs[1], raw |-> res.raw]

\* rule(boards), for the list of the board and a pawn column given twice
ApplyAll ==
    /\ pc = "start"
    /\ pc' = "appliedAll"
    /\ out' = OfFirst(Rule_call_list(rule, <<board, PawnColumn(0), PawnColumn(0)>>))
    /\ board' = out'.inb
    /\ raw' = out'.raw
    /\ UNCHANGED <<rule, board0, move, pattern, drule, dout, st, text>>

NextApply == Apply \/ ApplyAll

SpecApply == InitApply /\ [][NextApply]_vars

(***************************************************************************)
(* What the claims say of a rule applied to a board                        *)
(***************************************************************************)
Keys(boards) == {get_board_key(boards[i]) : i \in DOMAIN boards}

\* the places of raw at which a board is met for the first time
FirstSeen(l) ==
    {i \in DOMAIN l : \A j \in 1..(i - 1) : get_board_key(l[j]) # get_board_key(l[i])}

\* the n-th smallest element of a set of numbers
Nth(S, n) == CHOOSE x \in S : Cardinality({y \in S : y < x}) = n - 1

\* C3: the list a rule returns, for a board or for a list of boards, holds
\* no two boards with equal entries, and holds the boards in the order in
\* which they were first met
C3_Deduplicated ==
    (pc \in {"applied", "appliedAll"} /\ ~out.err) =>
        /\ \A i, j \in DOMAIN out.boards :
              get_board_key(out.boards[i]) = get_board_key(out.boards[j]) => i = j
        /\ Len(out.boards) = Cardinality(FirstSeen(raw))
        /\ \A n \in DOMAIN out.boards : out.boards[n] = raw[Nth(FirstSeen(raw), n)]

\* a rule returned a list in which a board came twice before deduplication
C3_Witness ==
    /\ pc \in {"applied", "appliedAll"}
    /\ ~out.err
    /\ Len(out.boards) >= 2
    /\ Len(raw) > Len(out.boards)

HasPiece(b, c) == \E i \in DOMAIN b : b[i][2] = c

\* the boards PieceOfInterest(c, body) is said to give on b, as keys
PieceOfInterestReference(c, body, b) ==
    IF HasPiece(b, PERCENT)
    THEN Keys(Rule_call(body, b).boards)
    ELSE UNION {
            Let(Rule_call(body, DictSet(b, b[i][1], PERCENT)).boards, LAMBDA found :
                Keys([n \in DOMAIN found |-> replace_piece(PERCENT, c, found[n])])) :
            i \in {j \in DOMAIN b : b[j][2] = c}}

\* the board b with the piece at k moved n squares up over empty squares
MovedUp(b, k, n) ==
    DictSet(DictSet(b, k, DOT), <<k[1], k[2] + n>>, DictGet(b, k, NoneVal))

CanMoveUp(b, k, n) == \A d \in 1..n : DictGet(b, <<k[1], k[2] + d>>, NoneVal) = DOT

IsMoveUpTimes(r) ==
    /\ r.kind = "PieceOfInterest"
    /\ r.rules[1].kind = "Repeat"
    /\ r.rules[1].rules[1] = MoveUp(PERCENT)
    /\ r.rules[1].at_most = r.rules[1].at_least

\* C6: PieceOfInterest(c, body) gives body(b) when b holds a '%', and else
\* the union over the squares k holding c of body(b with k set to '%') with
\* every '%' put back to c; so in %c: body{n} the n steps move one piece
C6_PieceOfInterest ==
    (pc = "applied" /\ rule.kind = "PieceOfInterest" /\ ~out.err) =>
        /\ Keys(out.boards) = PieceOfInterestReference(rule.piece, rule.rules[1], board0)
        /\ (IsMoveUpTimes(rule) /\ ~HasPiece(board0, PERCENT)) =>
              Keys(out.boards) =
                  {get_board_key(MovedUp(board0, k, rule.rules[1].at_least)) :
                      k \in {k2 \in DictKeys(board0) :
                                /\ DictGet(board0, k2, NoneVal) = rule.piece
                                /\ CanMoveUp(board0, k2, rule.rules[1].at_least)}}

\* %p: (%;. -> .;%){2} was applied to a board with two pawns that can go
\* up twice, and gave two boards
C6_Witness ==
    /\ pc = "applied"
    /\ rule = PieceOfInterestRule(PAWN, RepeatRule(MoveUp(PERCENT), 2, 2, FALSE))
    /\ ~HasPiece(board0, PERCENT)
    /\ Len(out.boards) = 2

\* C7: when rule(board) returns or raises, the board passed holds the
\* entries it held before the call
C7_InputUnchanged ==
    (pc = "applied") => board = board0

\* a piece of interest was chosen and the body raised
C7_Witness ==
    /\ pc = "applied"
    /\ out.err
    /\ rule.kind = "PieceOfInterest"
    /\ HasPiece(board0, rule.piece)
    /\ ~HasPiece(board0, PERCENT)
    /\ board = board0

\* the squares of b holding the piece c that can go n squares up
CanGoUp(b, c, n) ==
    {k \in DictKeys(b) : DictGet(b, k, NoneVal) = c /\ CanMoveUp(b, k, n)}

\* C13 as stated: on the board ....;pppp;....;..K. the rule %p: (%;. -> .;%){2}
\* gives four successors, one per pawn, the pawn two rows up
C13_FourSuccessors ==
    (pc = "applied" /\ rule = pawn_move_twice_rule /\ board0 = S3Board) =>
        /\ Len(out.boards) = 4
        /\ Keys(out.boards) =
              {get_board_key(MovedUp(board0, <<x, 1>>, 2)) : x \in 0..3}

\* C13: on that board the rule gives three successors, one for each pawn
\* with two empty squares over it, the pawn two rows up; the pawn under the
\* K gives none.  The same holds with the K over any of the pawns
C13_BlockedPawnStays ==
    (pc = "applied" /\ rule = pawn_move_twice_rule
                     /\ board0 \in {KingFarOverPawns(x) : x \in 0..3}) =>
        /\ ~out.err
        /\ Len(out.boards) = 3
        /\ Keys(out.boards) =
              {get_board_key(MovedUp(board0, k, 2)) : k \in CanGoUp(board0, PAWN, 2)}

\* the rule was applied to the board of the example and gave three boards,
\* none of them with the third pawn moved
C13_Witness ==
    /\ pc = "applied"
    /\ rule = pawn_move_twice_rule
    /\ board0 = S3Board
    /\ Len(out.boards) = 3
    /\ \A i \in DOMAIN out.boards : DictGet(out.boards[i], <<2, 1>>, NoneVal) = PAWN

\* the boards in which one piece c of b has gone one square or more up, over
\* empty squares only, every other square as it was
OneMovedUp(b, c) ==
    UNION {{get_board_key(MovedUp(b, k, n)) : n \in {n2 \in 1..Len(b) : CanMoveUp(b, k, n2)}} :
              k \in {k2 \in DictKeys(b) : DictGet(b, k2, NoneVal) = c}}

\* C15: %R: (%;. -> .;%)+ gives the boards in which one R has gone one
\* square or more up over empty squares, each once; no R goes through or
\* onto a K, and no board has two R moved
C15_RookMoves ==
    (pc = "applied" /\ rule = rook_move_rule /\ ~HasPiece(board0, PERCENT)) =>
        /\ ~out.err
        /\ Keys(out.boards) = OneMovedUp(board0, ROOK)
        /\ Len(out.boards) = Cardinality(OneMovedUp(board0, ROOK))
        /\ \A i \in DOMAIN out.boards :
              /\ {k \in DictKeys(board0) : DictGet(board0, k, NoneVal) = KING}
                    = {k \in DictKeys(out.boards[i]) : DictGet(out.boards[i], k, NoneVal) = KING}
              /\ Cardinality({k \in DictKeys(board0) :
                                /\ DictGet(board0, k, NoneVal) = ROOK
                                /\ DictGet(out.boards[i], k, NoneVal) # ROOK}) = 1

\* the rule was applied to a board with two R, one of them under a K with
\* an empty square between, and the other free to go two squares or more
C15_Witness ==
    /\ pc = "applied"
    /\ rule = rook_move_rule
    /\ \E k \in DictKeys(board0) :
          /\ DictGet(board0, k, NoneVal) = ROOK
          /\ DictGet(board0, <<k[1], k[2] + 1>>, NoneVal) = DOT
          /\ DictGet(board0, <<k[1], k[2] + 2>>, NoneVal) = KING
    /\ \E k \in DictKeys(board0) :
          DictGet(board0, k, NoneVal) = ROOK /\ CanMoveUp(board0, k, 2)
    /\ Len(out.boards) >= 3

\* R1(b), ..., Rn(b) one after the other
RECURSIVE ConcatCalls(_, _)
ConcatCalls(rules, b) ==
    IF rules = <<>> THEN <<>>
    ELSE Rule_call(Head(rules), b).boards \o ConcatCalls(Tail(rules), b)

\* C16: OneOf([R1..Rn]) gives on b the list R1(b), ..., Rn(b) with every
\* board left out that came before, so the boards that are a successor
\* under a child or more; on the board with the K over the third of four
\* pawns, forward move, take right and take left give 5 boards
C16_OneOfUnion ==
    (pc = "applied" /\ rule.kind = "OneOf" /\ ~out.err) =>
        Let(ConcatCalls(rule.rules, board0), LAMBDA all :
            /\ Len(out.boards) = Cardinality(FirstSeen(all))
            /\ \A n \in DOMAIN out.boards : out.boards[n] = all[Nth(FirstSeen(all), n)]
            /\ Keys(out.boards) =
                  UNION {Keys(Rule_call(rule.rules[i], board0).boards) :
                            i \in DOMAIN rule.rules}
            /\ (rule = pawn_rule /\ board0 = S2Board) => Len(out.boards) = 5)

\* pawn_rule was applied to the board of the example: three boards of the
\* forward move and one of each take
C16_Witness ==
    /\ pc = "applied"
    /\ rule = pawn_rule
    /\ board0 = S2Board
    /\ ~out.err
    /\ Len(out.boards) = 5
    /\ Len(Rule_call(pawn_move_rule, board0).boards) = 3
    /\ Len(Rule_call(pawn_take_right_rule, board0).boards) = 1
    /\ Len(Rule_call(pawn_take_left_rule, board0).boards) = 1

\* the list l with every board left out that came before
Dedup(l) == [n \in 1..Cardinality(FirstSeen(l)) |-> l[Nth(FirstSeen(l), n)]]

\* R(b1), ..., R(bn) one after the other
RECURSIVE ConcatOver(_, _)
ConcatOver(r, boards) ==
    IF boards = <<>> THEN <<>>
    ELSE Rule_call(r, Head(boards)).boards \o ConcatOver(r, Tail(boards))

\* Rn(...R2(R1(boards))...), a rule applied to a list being the flat union
\* of its results on the members, deduplicated
RECURSIVE FoldRules(_, _)
FoldRules(rules, boards) ==
    IF rules = <<>> THEN boards
    ELSE FoldRules(Tail(rules), Dedup(ConcatOver(Head(rules), boards)))

\* C17: Sequence([R1..Rn]) gives on b the boards Rn(...R2(R1([b]))...); R1 * R2
\* gives the same boards; and in pawn move * pawn move the two steps may
\* be of two pawns
C17_SequenceFold ==
    (pc = "applied" /\ rule.kind = "Sequential" /\ ~out.err) =>
        /\ out.boards = FoldRules(rule.rules, <<board0>>)
        /\ Len(rule.rules) = 2 =>
              Let(Rule_call(Rule_mul(rule.rules[1], rule.rules[2]), board0), LAMBDA prod :
                  ~prod.err /\ prod.boards = out.boards)
        /\ (rule = Rule_mul(pawn_move_rule, pawn_move_rule) /\ board0 = S2Board) =>
              /\ Len(out.boards) = 6
              /\ \E i \in DOMAIN out.boards :
                    /\ DictGet(out.boards[i], <<0, 2>>, NoneVal) = PAWN
                    /\ DictGet(out.boards[i], <<1, 2>>, NoneVal) = PAWN

\* (pawn move * take right) * pawn move was applied to the board of the
\* example: the product of its two parts is a Sequence of three rules, and
\* the K was taken by one pawn after another pawn had moved
C17_Witness ==
    /\ pc = "applied"
    /\ rule.kind = "Sequential"
    /\ Len(rule.rules) = 2
    /\ rule.rules[1].kind = "Sequential"
    /\ Len(Rule_mul(rule.rules[1], rule.rules[2]).rules) = 3
    /\ board0 = S2Board
    /\ \E i \in DOMAIN out.boards :
          /\ DictGet(out.boards[i], <<0, 2>>, NoneVal) = PAWN
          /\ DictGet(out.boards[i], <<2, 2>>, NoneVal) = PAWN

\* C18: the rule with an empty pattern and an empty replacement gives [b]
\* on every board b, the empty board too
C18_IdentityRule ==
    (pc = "applied" /\ rule.kind = "FindAndReplace"
                     /\ rule.pattern = <<>> /\ rule.replacement = <<>>) =>
        /\ ~out.err
        /\ out.boards = <<board0>>

\* Rule.identity() was applied to the empty board
C18_Witness ==
    /\ pc = "applied"
    /\ rule = Rule_identity
    /\ board0 = <<>>
    /\ out.boards = <<<<>>>>

\* C19: Sequence([]) gives [b] and OneOf([]) gives the empty list
C19_NeutralElements ==
    /\ (pc = "applied" /\ rule = SequentialRule(<<>>)) =>
          (~out.err /\ out.boards = <<board0>>)
    /\ (pc = "applied" /\ rule = OneOfRule(<<>>)) =>
          (~out.err /\ out.boards = <<>>)

\* OneOf([]) was applied to a board that holds a pawn
C19_Witness ==
    /\ pc = "applied"
    /\ rule = OneOfRule(<<>>)
    /\ HasPiece(board0, PAWN)
    /\ ~out.err
    /\ out.boards = <<>>

\* C20: Repeat(R, 0, 0) gives [b], whatever R is: R is not applied
C20_RepeatZero ==
    (pc = "applied" /\ rule.kind = "Repeat" /\ rule.at_least = 0 /\ rule.at_most = 0) =>
        /\ ~out.err
        /\ out.boards = <<board0>>

\* the rule repeated raises when it is applied, and Repeat(R, 0, 0) has
\* returned
C20_Witness ==
    /\ pc = "applied"
    /\ rule.kind = "Repeat"
    /\ rule.at_least = 0
    /\ rule.at_most = 0
    /\ Rule_call(rule.rules[1], board0).err
    /\ out.boards = <<board0>>

(***************************************************************************)
(* SpecRepeat: RepeatRule._apply, one iteration of its while loop a step   *)
(***************************************************************************)
UP == <<"u">>
DOWN == <<"d">>
WALL == <<"B">>

FR2(c0, c1, d0, d1) ==
    FindAndReplaceRule(<<<<<<0, 0>>, c0>>, <<<<0, 1>>, c1>>>>,
                       <<<<<<0, 0>>, d0>>, <<<<0, 1>>, d1>>>>)

\* the piece u goes up and turns into d under a B, d goes down and turns
\* into u over a B
Bounce ==
    OneOfRule(<<FR2(UP, DOT, DOT, UP), FR2(UP, WALL, DOWN, WALL),
                FR2(DOT, DOWN, DOWN, DOT), FR2(WALL, DOWN, WALL, UP)>>)

\* a column B . . . B of MaxY + 1 free squares with the piece c at height y
BounceBoard(y, c) ==
    [i \in 1..(MaxY + 3) |->
        <<<<0, i - 1>>, IF i = 1 \/ i = MaxY + 3 THEN WALL
                        ELSE IF i - 1 = y THEN c ELSE DOT>>]

BounceBoards == {BounceBoard(y, c) : y \in 1..(MaxY + 1), c \in {UP, DOWN}}

RepeatRules ==
    RepeatsOf({Bounce, MoveUp(PAWN), Stay, BadRule, Rule_identity,
               PieceOfInterestRule(PAWN, MoveUp(PERCENT))})

\* the board and the rule of the example: B . u . B, bottom to top, and
\* rule.between(2, 4)
S5Board == parse_board_lines(<<<<"B">>, <<".">>, <<"u">>, <<".">>, <<"B">>>>)
S5Rule == Rule_between(Bounce, 2, 4, FALSE)

NoLocals ==
    [boards |-> <<>>, all_boards |-> <<>>, board_keys |-> {}, i |-> 0,
     done |-> FALSE, err |-> FALSE, inb |-> <<>>]

InitRepeat ==
    /\ pc = "idle"
    /\ rule = Rule_identity
    /\ board = <<>>
    /\ board0 = <<>>
    /\ pattern = <<>>
    /\ move = Movement_identity
    /\ out = Idle
    /\ raw = <<>>
    /\ drule = Rule_identity
    /\ dout = Idle
    /\ st = NoLocals
    /\ text = <<>>

\* a Repeat rule is called on a board
RepeatCall ==
    /\ pc = "idle"
    /\ pc' = "start"
    /\ rule' \in RepeatRules \cup {S5Rule}
    /\ board' \in Boards \cup BounceBoards \cup {S5Board}
    /\ board0' = board'
    /\ UNCHANGED <<move, pattern, out, raw, drule, dout, st, text>>

\* the rule is applied at_least times and the locals of the loop are set
RepeatEnter ==
    /\ pc = "start"
    /\ st' = RepeatRule_start(rule, board)
    /\ pc' = IF st'.done THEN "break" ELSE "loop"
    /\ board' = st'.inb
    /\ UNCHANGED <<rule, board0, move, pattern, out, raw, drule, dout, text>>

\* one iteration of while True, which may be left by break
RepeatIterate ==
    /\ pc = "loop"
    /\ st' = RepeatRule_step(rule, st)
    /\ pc' = IF st'.done THEN "break" ELSE "loop"
    /\ board' = st'.inb
    /\ UNCHANGED <<rule, board0, move, pattern, out, raw, drule, dout, text>>

\* return unique_boards(all_boards), or the exception of the body
RepeatReturn ==
    /\ pc = "break"
    /\ pc' = "done"
    /\ out' = RepeatRule_return(st)
    /\ raw' = st.all_boards
    /\ UNCHANGED <<rule, board, board0, move, pattern, drule, dout, st, text>>

NextRepeat == RepeatCall \/ RepeatEnter \/ RepeatIterate \/ RepeatReturn

\* a step of the call can be taken until the call has returned, and every
\* step changes pc or the locals
RepeatRunning == pc # "done"

\* the call runs on, a step that can be taken is taken: this is
\* WF_vars(NextRepeat) with ENABLED <<NextRepeat>>_vars written as the
\* state predicate RepeatRunning that it equals
RepeatRunsOn == []<>(~RepeatRunning) \/ []<><<NextRepeat>>_vars

SpecRepeat == InitRepeat /\ [][NextRepeat]_vars /\ RepeatRunsOn

\* C8: an unbounded Repeat on a board with finitely many boards in reach
\* returns, and every iteration of its loop that does not leave the loop
\* adds a key to board_keys
C8_RepeatTerminates ==
    /\ [][(pc = "loop" /\ pc' = "loop") =>
             (st.board_keys \subseteq st'.board_keys /\ st.board_keys # st'.board_keys)]_vars
    /\ <>(pc = "done")

\* the bouncing piece: (rule)* returned the boards of the cycle, the
\* first board among them
C8_Witness ==
    /\ pc = "done"
    /\ rule = RepeatRule(Bounce, 0, NoAtMost, FALSE)
    /\ board0 \in BounceBoards
    /\ Len(out.boards) = 2 * (MaxY + 1)
    /\ get_board_key(board0) \in Keys(out.boards)
    /\ st.i = 2 * (MaxY + 1) - 1

\* the frontiers of the claim: F_lo is the body applied at_least times, the
\* next frontier the boards of body(F_i) with a key not seen in F_lo..F_i;
\* no frontier is computed past at_most nor after an empty one
RECURSIVE FrontiersFrom(_, _, _, _, _)
FrontiersFrom(body, hi, i, seen, fs) ==
    IF hi # NoAtMost /\ i >= hi THEN fs
    ELSE LET new(x) == get_board_key(x) \notin seen
         IN  Let(SelectSeq(Rule_call_list(body, fs[Len(fs)]).boards, new), LAMBDA next :
                 IF next = <<>> THEN fs
                 ELSE FrontiersFrom(body, hi, i + 1, seen \cup Keys(next),
                                    Append(fs, next)))

RECURSIVE Times(_, _, _)
Times(body, boards, n) ==
    IF n = 0 THEN boards ELSE Times(body, Rule_call_list(body, boards).boards, n - 1)

Frontiers(r, b) ==
    Let(Times(r.rules[1], <<b>>, r.at_least), LAMBDA first :
        FrontiersFrom(r.rules[1], r.at_most, r.at_least, Keys(first), <<first>>))

\* C9: a greedy Repeat returns the last frontier that is not empty and no
\* board of an earlier one, a Repeat that is not greedy the boards of all
\* frontiers
C9_GreedyResult ==
    (pc = "done" /\ ~out.err) =>
        Let(Frontiers(rule, board0), LAMBDA fs :
            IF rule.greedy
            THEN /\ Keys(out.boards) = Keys(fs[Len(fs)])
                 /\ \A j \in 1..(Len(fs) - 1) : Keys(out.boards) \cap Keys(fs[j]) = {}
            ELSE Keys(out.boards) = UNION {Keys(fs[j]) : j \in DOMAIN fs})

\* a greedy unbounded Repeat went through three frontiers or more and
\* returned the last
C9_Witness ==
    /\ pc = "done"
    /\ ~out.err
    /\ rule.greedy
    /\ rule.at_most = NoAtMost
    /\ st.i >= rule.at_least + 2
    /\ out.boards # <<>>
    /\ Keys(out.boards) # Keys(raw) \cup Keys(st.boards) \cup st.board_keys

\* the keys of the boards reached from the boards cur, themselves reached by
\* k applications, by k to hi applications of the body; when hi is None
\* the union is complete once an application gives no key that is new to it
RECURSIVE PowersUnion(_, _, _, _, _)
PowersUnion(body, cur, k, hi, acc) ==
    Let(acc \cup Keys(cur), LAMBDA acc1 :
        IF hi # NoAtMost /\ k >= hi THEN acc1
        ELSE Let(Rule_call_list(body, cur).boards, LAMBDA next :
                 IF hi = NoAtMost /\ Keys(next) \subseteq acc1 THEN acc1
                 ELSE PowersUnion(body, next, k + 1, hi, acc1)))

\* C27: a Repeat that is not greedy returns the boards that are reached
\* from the board passed in by exactly k applications of its body, for the
\* k from at_least to at_most, none lost and none more
C27_UnionOfPowers ==
    (pc = "done" /\ ~rule.greedy /\ ~out.err) =>
        Keys(out.boards)
            = PowersUnion(rule.rules[1], Times(rule.rules[1], <<board0>>, rule.at_least),
                          rule.at_least, rule.at_most, {})

\* (rule)+ on a bouncing piece: the board passed in, met before the first
\* frontier, is returned as the last board of the cycle
C27_Witness ==
    /\ pc = "done"
    /\ ~out.err
    /\ rule = RepeatRule(Bounce, 1, NoAtMost, FALSE)
    /\ board0 \in BounceBoards
    /\ get_board_key(board0) \in Keys(out.boards)
    /\ get_board_key(board0) \notin Keys(Rule_call(Bounce, board0).boards)
    /\ st.i = 2 * (MaxY + 1)

\* the board of the example with its piece taken off and c put at height y
S5With(c, y) == DictSet(DictSet(S5Board, <<0, 2>>, DOT), <<0, y>>, c)

\* C14: on B . u . B the bouncing rule applied between 2 and 4 times gives
\* three boards, d in the top, the middle and the bottom free square, and
\* neither the board passed nor the board after one step
C14_BoundedRepeat ==
    (pc = "done" /\ rule = S5Rule /\ board0 = S5Board) =>
        /\ ~out.err
        /\ Len(out.boards) = 3
        /\ Keys(out.boards) = {get_board_key(S5With(DOWN, y)) : y \in 1..3}
        /\ get_board_key(board0) \notin Keys(out.boards)
        /\ get_board_key(S5With(UP, 3)) \notin Keys(out.boards)

\* the call of the example has returned, after the two iterations that
\* at_most leaves
C14_Witness ==
    /\ pc = "done"
    /\ rule = S5Rule
    /\ board0 = S5Board
    /\ st.i = 4
    /\ Len(out.boards) = 3

(***************************************************************************)
(* Symmetries acting on boards, pieces and rules.  A symmetry is a record: *)
(* a Movement with its list of movements, or the ReverseXOMovement.        *)
(***************************************************************************)
Movement(movements) == [class |-> "Movement", movements |-> movements]

ReverseXOMovement == [class |-> "ReverseXOMovement", movements |-> <<>>]

\* Movement._reverse
Movement_reverse(a) ==
    IF a.rot THEN Rot(0 - a.r) ELSE Slide(0 - a.x, 0 - a.y)

\* Movement.__invert__
Movement_invert(m) == [i \in DOMAIN m |-> Movement_reverse(m[i])]

\* Movement.__call__ on a Movement: self.movements + other.movements
Movement_mul(m, other) == m \o other

\* movements * abs(exp)
RECURSIVE Movement_times(_, _)
Movement_times(m, n) == IF n <= 0 THEN <<>> ELSE m \o Movement_times(m, n - 1)

\* Movement.__pow__
Movement_pow(m, exp) ==
    IF exp < 0 THEN Movement_times(Movement_invert(m), 0 - exp)
    ELSE Movement_times(m, exp)

\* str.replace(old, new)
RECURSIVE StrReplace(_, _, _)
StrReplace(s, old, new) ==
    IF Len(s) < Len(old) THEN s
    ELSE IF SubSeq(s, 1, Len(old)) = old
         THEN new \o StrReplace(SubSeq(s, Len(old) + 1, Len(s)), old, new)
         ELSE <<Head(s)>> \o StrReplace(Tail(s), old, new)

reverse_xo_pieces(piece) ==
    StrReplace(StrReplace(StrReplace(piece, <<"X">>, <<"<", "X", ">">>),
                          <<"O">>, <<"X">>),
               <<"<", "X", ">">>, <<"O">>)

\* m * board
Mul_board(m, b) ==
    IF m.class = "Movement" THEN Movement_call_board(m.movements, b)
    ELSE [i \in DOMAIN b |-> <<b[i][1], reverse_xo_pieces(b[i][2])>>]

\* m * piece
Mul_piece(m, piece) ==
    IF m.class = "Movement" THEN Movement_call_piece(m.movements, piece)
    ELSE reverse_xo_pieces(piece)

RECURSIVE Rule_distribute(_, _)

\* RepeatRule._distribute: RepeatRule(m * self.rule, self.at_least,
\* self.at_most), and so greedy is the False of __init__
RepeatRule_distribute(r, m) ==
    RepeatRule(Rule_distribute(r.rules[1], m), r.at_least, r.at_most, FALSE)

\* m * rule: the _distribute of the rule's class
Rule_distribute(r, m) ==
    CASE r.kind = "FindAndReplace" ->
             FindAndReplaceRule(Mul_board(m, r.pattern), Mul_board(m, r.replacement))
      [] r.kind = "OneOf" ->
             OneOfRule([i \in DOMAIN r.rules |-> Rule_distribute(r.rules[i], m)])
      [] r.kind = "Sequential" ->
             SequentialRule([i \in DOMAIN r.rules |-> Rule_distribute(r.rules[i], m)])
      [] r.kind = "PieceOfInterest" ->
             PieceOfInterestRule(Mul_piece(m, r.piece), Rule_distribute(r.rules[1], m))
      [] r.kind = "Repeat" -> RepeatRule_distribute(r, m)

(***************************************************************************)
(* SpecDistribute: m * rule is built, then rule(board) and                 *)
(* (m * rule)(m * board) are called                                        *)
(***************************************************************************)
XPIECE == <<"X">>
OPIECE == <<"O">>

\* p;. -> .;p sideways: the pawn steps one square to the right
MoveRight(c) ==
    FindAndReplaceRule(<<<<<<0, 0>>, c>>, <<<<1, 0>>, DOT>>>>,
                       <<<<<<0, 0>>, DOT>>, <<<<1, 0>>, c>>>>)

\* . -> X
PlaceX == FindAndReplaceRule(<<<<<<0, 0>>, DOT>>>>, <<<<<<0, 0>>, XPIECE>>>>)

\* [XO];. -> .;O
PushO == FR2(<<"X", "O">>, DOT, DOT, OPIECE)

DistAtoms == {MoveUp(PAWN), MoveRight(PAWN), PlaceX, PushO, Rule_identity}

DistRules ==
    DistAtoms
    \cup RepeatsOf({MoveUp(PAWN), PlaceX})
    \cup {PieceOfInterestRule(c, RepeatRule(MoveUp(PERCENT), 0, NoAtMost, g)) :
             c \in {PAWN, XPIECE}, g \in BOOLEAN}
    \cup {OneOfRule(<<a, RepeatRule(b, 1, NoAtMost, TRUE)>>) :
             a \in DistAtoms, b \in {MoveUp(PAWN), PushO}}
    \cup {SequentialRule(<<RepeatRule(MoveUp(PAWN), 0, NoAtMost, g), a>>) :
             a \in DistAtoms, g \in BOOLEAN}

\* boards of two columns: pawns, or X and O, and empty squares
DistBoards ==
    {col \o PawnColumn(1) : col \in Columns(0, 0, {DOT, PAWN})}
    \cup {[i \in DOMAIN col |-> <<<<1, col[i][1][2]>>, col[i][2]>>] \o PawnColumn(0) :
            col \in Columns(0, 0, {DOT, XPIECE})}

\* Movement.rotate(4), and Movement.rotate(1) composed with itself four times
FullTurns ==
    {Movement(Movement_rotate(4)),
     Movement(Movement_mul(Movement_mul(Movement_rotate(1), Movement_rotate(1)),
                           Movement_mul(Movement_rotate(1), Movement_rotate(1))))}

Moves ==
    {Movement(ms) : ms \in {Movement_identity, Movement_rotate(1), Movement_rotate(2),
                            Movement_rotate(3), Movement_slide(1, -1),
                            Movement_slide(-1, 0) \o Movement_rotate(2),
                            Movement_invert(Movement_rotate(1) \o Movement_slide(0, 1))}}
    \cup FullTurns
    \cup {ReverseXOMovement}

InitDistribute ==
    /\ pc = "start"
    /\ rule \in DistRules
    /\ board \in DistBoards
    /\ board0 = board
    /\ move \in Moves
    /\ pattern = <<>>
    /\ out = Idle
    /\ raw = <<>>
    /\ drule = Rule_identity
    /\ dout = Idle
    /\ st = <<>>
    /\ text = <<>>

\* drule = move * rule
Distribute ==
    /\ pc = "start"
    /\ pc' = "distributed"
    /\ drule' = Rule_distribute(rule, move)
    /\ UNCHANGED <<rule, board, board0, move, pattern, out, raw, dout, st, text>>

\* rule(board) and drule(move * board)
ApplyBoth ==
    /\ pc = "distributed"
    /\ pc' = "compared"
    /\ out' = Rule_call(rule, board)
    /\ board' = out'.inb
    /\ raw' = out'.raw
    /\ dout' = Rule_call(drule, Mul_board(move, board))
    /\ UNCHANGED <<rule, board0, move, pattern, drule, st, text>>

NextDistribute == Distribute \/ ApplyBoth

SpecDistribute == InitDistribute /\ [][NextDistribute]_vars

\* C1: for a geometric Movement m, the boards of (m * R)(m * b) are the
\* boards m * x for x in R(b), as sets
C1_DistributionCommutes ==
    (pc = "compared" /\ move.class = "Movement" /\ ~out.err /\ ~dout.err) =>
        Keys(dout.boards) =
            {get_board_key(Mul_board(move, out.boards[i])) : i \in DOMAIN out.boards}

\* C10: m * Repeat(body, lo, hi, greedy) is Repeat(m * body, lo, hi, greedy),
\* for a Movement and for the ReverseXOMovement
C10_DistributeRepeat ==
    (pc = "distributed" /\ rule.kind = "Repeat") =>
        /\ drule.kind = "Repeat"
        /\ drule.rules[1] = Rule_distribute(rule.rules[1], move)
        /\ drule.at_least = rule.at_least
        /\ drule.at_most = rule.at_most
        /\ drule.greedy = rule.greedy

\* C11: rotate(4) and rotate(1) four times leave every point and every
\* board as it is, and the rule they give has the successors of the rule
\* on every board, a greedy Repeat included
C11_RotationGroup ==
    (pc = "compared" /\ move \in FullTurns) =>
        /\ \A k \in DictKeys(board0) :
              Movement_call_point(move.movements, k, FALSE) = k
        /\ Mul_board(move, board0) = board0
        /\ ~out.err => (~dout.err /\ Keys(dout.boards) = Keys(out.boards))

\* what does hold: the points and the boards are left as they are
C11_FullTurnOfBoards ==
    (pc = "compared" /\ move \in FullTurns) =>
        /\ \A k \in DictKeys(board0) :
              Movement_call_point(move.movements, k, FALSE) = k
        /\ Mul_board(move, board0) = board0

(***************************************************************************)
(* The text of a rule: Movement.__str__, square_repr, board_repr and the   *)
(* __str__ of the five rule classes                                        *)
(***************************************************************************)
Digits == <<"0", "1", "2", "3", "4", "5", "6", "7", "8", "9">>

\* f'{n}' for an int
RECURSIVE NatStr(_)
NatStr(n) ==
    IF n < 10 THEN <<Digits[n + 1]>> ELSE NatStr(n \div 10) \o <<Digits[(n % 10) + 1]>>

IntStr(n) == IF n < 0 THEN <<"-">> \o NatStr(0 - n) ELSE NatStr(n)

\* ' '.join(parts), and sep.join(parts) in general
RECURSIVE StrJoin(_, _)
StrJoin(sep, parts) ==
    IF parts = <<>> THEN <<>>
    ELSE IF Len(parts) = 1 THEN parts[1]
    ELSE parts[1] \o sep \o StrJoin(sep, Tail(parts))

\* the parts Movement.__str__ appends for one element of self.movements
Movement_str_parts(a) ==
    IF a.rot
    THEN IF a.r = 1 THEN <<<<"R">>>>
         ELSE IF a.r # 0 THEN <<<<"R", "^">> \o IntStr(a.r)>>
         ELSE <<>>
    ELSE (IF a.x = 1 THEN <<<<"r">>>>
          ELSE IF a.x = -1 THEN <<<<"l">>>>
          ELSE IF a.x > 1 THEN <<<<"r", "^">> \o IntStr(a.x)>>
          ELSE IF a.x < -1 THEN <<<<"l", "^">> \o IntStr(0 - a.x)>>
          ELSE <<>>)
         \o
         (IF a.y = 1 THEN <<<<"u">>>>
          ELSE IF a.y = -1 THEN <<<<"d">>>>
          ELSE IF a.y > 1 THEN <<<<"u", "^">> \o IntStr(a.y)>>
          ELSE IF a.y < -1 THEN <<<<"d", "^">> \o IntStr(0 - a.y)>>
          ELSE <<>>)

RECURSIVE Movement_str_from(_)
Movement_str_from(m) ==
    IF m = <<>> THEN <<>> ELSE Movement_str_parts(Head(m)) \o Movement_str_from(Tail(m))

\* Movement.__str__
Movement_str(m) ==
    LET parts == Movement_str_from(m)
    IN  IF parts = <<>> THEN <<"1">> ELSE StrJoin(<<" ">>, parts)

square_repr(square) ==
    IF square[1] = "^" THEN <<"[", "^">> \o Tail(square) \o <<"]">>
    ELSE IF Len(square) > 1 THEN <<"[">> \o square \o <<"]">>
    ELSE square

\* line.rstrip('r')
RECURSIVE RStrip(_, _)
RStrip(s, c) ==
    IF s # <<>> /\ s[Len(s)] = c THEN RStrip(SubSeq(s, 1, Len(s) - 1), c) ELSE s

\* ''.join(square_repr(f.get((x, y), 'r')) for x in range(x, max_x + 1))
RECURSIVE board_repr_line(_, _, _, _)
board_repr_line(f, x, max_x, y) ==
    IF x > max_x THEN <<>>
    ELSE square_repr(DictGet(f, <<x, y>>, <<"r">>)) \o board_repr_line(f, x + 1, max_x, y)

board_repr(f) ==
    IF f = <<>> THEN <<"0">>
    ELSE LET bb == get_board_bounds(f)
             lines == [j \in 1..(bb[4] - bb[2] + 1) |->
                          RStrip(board_repr_line(f, bb[1], bb[3], bb[2] + j - 1), "r")]
             s == StrJoin(<<";">>, lines)
         IN  IF bb[1] # 0 \/ bb[2] # 0
             THEN Movement_str(Movement_slide(bb[1], bb[2])) \o <<" ", "*", " ">> \o s
             ELSE s

\* RepeatRule.__str__ after the rule: *, +, {n}, {n,} or {n, m}
RepeatRule_brackets_part(r) ==
    IF r.at_least = 0 /\ r.at_most = NoAtMost THEN <<"*">>
    ELSE IF r.at_least = 1 /\ r.at_most = NoAtMost THEN <<"+">>
    ELSE <<"{">> \o IntStr(r.at_least)
         \o (IF r.at_most = NoAtMost THEN <<",">>
             ELSE IF r.at_most # r.at_least THEN <<",", " ">> \o IntStr(r.at_most)
             ELSE <<>>)
         \o <<"}">>

NIL == <<"n", "i", "l">>

\* ''.join(f'({r})' for r in rules) and ' | '.join(f'({r})' for r in rules)
RECURSIVE Rule_str(_)
RECURSIVE Rules_str(_, _)
Rules_str(sep, rules) ==
    StrJoin(sep, [i \in DOMAIN rules |-> <<"(">> \o Rule_str(rules[i]) \o <<")">>])

\* str(rule): the __str__ of the rule's class
Rule_str(r) ==
    CASE r.kind = "FindAndReplace" ->
             board_repr(r.pattern) \o <<" ", "-", ">", " ">> \o board_repr(r.replacement)
      [] r.kind = "OneOf" ->
             IF r.rules = <<>> THEN NIL ELSE Rules_str(<<" ", "|", " ">>, r.rules)
      [] r.kind = "Sequential" ->
             IF r.rules = <<>> THEN NIL ELSE Rules_str(<<>>, r.rules)
      [] r.kind = "PieceOfInterest" ->
             <<"%">> \o r.piece \o <<":", " ">> \o Rule_str(r.rules[1])
      [] r.kind = "Repeat" ->
             <<"(">> \o Rule_str(r.rules[1]) \o <<")">> \o RepeatRule_brackets_part(r)

(***************************************************************************)
(* Reading a rule: RULE_TOKEN_REGEX, MOVEMENT_REGEX, int, parse_movement,  *)
(* parse_board                                                             *)
(***************************************************************************)
DigitChars == {Digits[i] : i \in DOMAIN Digits}

IsSpace(c) == c \in {" ", "\t", "\n"}

\* [udlrR^0-9 *-]
IsMovementChar(c) == c \in {"u", "d", "l", "r", "R", "^", " ", "*", "-"} \cup DigitChars

\* [^(){}|*+:\->]
IsBoardChar(c) == c \notin {"(", ")", "{", "}", "|", "*", "+", ":", "-", ">"}

\* the first place from i on that holds no character of the class
MovementRunEnd(t, i) ==
    CHOOSE n \in i..(Len(t) + 1) :
        /\ n = Len(t) + 1 \/ ~IsMovementChar(t[n])
        /\ \A j \in i..(n - 1) : IsMovementChar(t[j])

BoardRunEnd(t, i) ==
    CHOOSE n \in i..(Len(t) + 1) :
        /\ n = Len(t) + 1 \/ ~IsBoardChar(t[n])
        /\ \A j \in i..(n - 1) : IsBoardChar(t[j])

DigitRunEnd(t, i) ==
    CHOOSE n \in i..(Len(t) + 1) :
        /\ n = Len(t) + 1 \/ t[n] \notin DigitChars
        /\ \A j \in i..(n - 1) : t[j] \in DigitChars

\* (?:[udlrR^0-9 *-]*)?[^(){}|*+:\->]+ at i: the place after the match, or
\* 0.  The first part takes the longest run it can and gives characters
\* back until the second part finds one
RuleTokenEndBoard(t, i) ==
    LET a == MovementRunEnd(t, i)
        given == {k \in i..(a - 1) : IsBoardChar(t[k])}
    IN  IF a <= Len(t) /\ IsBoardChar(t[a]) THEN BoardRunEnd(t, a)
        ELSE IF given = {} THEN 0
        ELSE SetMax(given) + 1

\* RULE_TOKEN_REGEX at i, its alternatives tried in their order: the place
\* after the match, or 0
RuleTokenEnd(t, i) ==
    LET n == Len(t)
        closing == {j \in (i + 1)..n : t[j] = "}"}
    IN  IF t[i] \in {"(", ")", "|", "*", "+"} THEN i + 1
        ELSE IF t[i] = "%" /\ i + 2 <= n /\ t[i + 1] # "\n" /\ t[i + 2] = ":" THEN i + 3
        ELSE IF t[i] = "-" /\ i + 1 <= n /\ t[i + 1] = ">" THEN i + 2
        ELSE IF /\ t[i] = "{"
                /\ closing # {}
                /\ \A k \in (i + 1)..SetMin(closing) : t[k] # "\n"
             THEN SetMin(closing) + 1
        ELSE RuleTokenEndBoard(t, i)

\* RULE_TOKEN_REGEX.findall(text)
RECURSIVE RuleTokensFrom(_, _, _)
RuleTokensFrom(t, i, acc) ==
    IF i > Len(t) THEN acc
    ELSE LET e == RuleTokenEnd(t, i)
         IN  IF e = 0 THEN RuleTokensFrom(t, i + 1, acc)
             ELSE RuleTokensFrom(t, e, Append(acc, SubSeq(t, i, e - 1)))

\* [token for token in RULE_TOKEN_REGEX.findall(text) if token.strip()]
RuleTokens(t) ==
    LET kept(token) == \E j \in DOMAIN token : ~IsSpace(token[j])
    IN  SelectSeq(RuleTokensFrom(t, 1, <<>>), kept)

\* s.strip()
RECURSIVE StrStrip(_)
StrStrip(s) ==
    IF s # <<>> /\ IsSpace(s[1]) THEN StrStrip(Tail(s))
    ELSE IF s # <<>> /\ IsSpace(s[Len(s)]) THEN StrStrip(SubSeq(s, 1, Len(s) - 1))
    ELSE s

DigitVal(c) == CHOOSE d \in 0..9 : Digits[d + 1] = c

RECURSIVE NatVal(_)
NatVal(ds) ==
    IF ds = <<>> THEN 0
    ELSE NatVal(SubSeq(ds, 1, Len(ds) - 1)) * 10 + DigitVal(ds[Len(ds)])

\* int(s): err stands for the ValueError
ParseInt(s) ==
    LET t == StrStrip(s)
        signed == t # <<>> /\ t[1] \in {"-", "+"}
        ds == IF signed THEN Tail(t) ELSE t
    IN  IF ds = <<>> \/ \E j \in DOMAIN ds : ds[j] \notin DigitChars
        THEN [err |-> TRUE, val |-> 0]
        ELSE [err |-> FALSE,
              val |-> IF signed /\ t[1] = "-" THEN 0 - NatVal(ds) ELSE NatVal(ds)]

\* MOVEMENT_REGEX at i: the place after the match, or 0
MovementPartEnd(t, i) ==
    LET n == Len(t)
        d0 == IF i + 2 <= n /\ t[i + 2] = "-" THEN i + 3 ELSE i + 2
    IN  IF t[i] \notin {"u", "d", "l", "r", "R"} THEN 0
        ELSE IF i + 1 <= n /\ t[i + 1] = "^" /\ DigitRunEnd(t, d0) > d0
             THEN DigitRunEnd(t, d0)
             ELSE i + 1

\* what parse_movement appends to mm for one part
parse_movement_part(part) ==
    LET c == part[1]
        n == IF \E j \in DOMAIN part : part[j] = "^"
             THEN ParseInt(SubSeq(part, 3, Len(part))).val
             ELSE 1
    IN  IF n = 0 THEN <<>>
        ELSE IF c = "u" THEN <<Slide(0, n)>>
        ELSE IF c = "d" THEN <<Slide(0, 0 - n)>>
        ELSE IF c = "l" THEN <<Slide(0 - n, 0)>>
        ELSE IF c = "r" THEN <<Slide(n, 0)>>
        ELSE IF n % 4 = 0 THEN <<>>
        ELSE <<Rot(n % 4)>>

RECURSIVE parse_movement_from(_, _, _)
parse_movement_from(t, i, mm) ==
    IF i > Len(t) THEN mm
    ELSE LET e == MovementPartEnd(t, i)
         IN  IF e = 0 THEN parse_movement_from(t, i + 1, mm)
             ELSE parse_movement_from(t, e, mm \o parse_movement_part(SubSeq(t, i, e - 1)))

parse_movement(t) == parse_movement_from(t, 1, <<>>)

\* the loop of parse_board over the characters of the text
RECURSIVE parse_board_from(_, _, _, _, _, _)
parse_board_from(t, i, x, y, x0, f) ==
    IF i > Len(t) THEN f
    ELSE LET c == t[i]
             closing == {j \in (i + 1)..Len(t) : t[j] = "]"}
             j == IF closing = {} THEN Len(t) + 1 ELSE SetMin(closing)
         IN  IF c \in {" ", "1"} THEN parse_board_from(t, i + 1, x, y, x0, f)
             ELSE IF c = "["
                  THEN parse_board_from(t, j + 1, x + 1, y, x0,
                                        DictSet(f, <<x, y>>, SubSeq(t, i + 1, j - 1)))
             ELSE IF c = ";" THEN parse_board_from(t, i + 1, x0, y + 1, x0, f)
             ELSE IF c = "u" THEN parse_board_from(t, i + 1, x, y + 1, x0, f)
             ELSE IF c = "d" THEN parse_board_from(t, i + 1, x, y - 1, x0, f)
             ELSE IF c = "l" THEN parse_board_from(t, i + 1, x - 1, y, x0, f)
             ELSE IF c = "r" THEN parse_board_from(t, i + 1, x + 1, y, x0, f)
             ELSE IF c = "0" THEN parse_board_from(t, i + 1, x + 1, y, x0, f)
             ELSE parse_board_from(t, i + 1, x + 1, y, x0, DictSet(f, <<x, y>>, <<c>>))

\* parse_board(text) for a str, x0 = y0 = 0
parse_board(t) ==
    LET stars == {i \in DOMAIN t : t[i] = "*"}
        notstar(c) == c # "*"
        m_text == IF stars = {} THEN <<>>
                  ELSE SelectSeq(SubSeq(t, 1, SetMax(stars) - 1), notstar)
        rest == IF stars = {} THEN t ELSE SubSeq(t, SetMax(stars) + 1, Len(t))
        origin == Movement_call_point(parse_movement(m_text), <<0, 0>>, FALSE)
    IN  parse_board_from(rest, 1, origin[1], origin[2], origin[1], <<>>)

(***************************************************************************)
(* The operators of rules and parse_rule.  _parse gives a record: err (an  *)
(* exception left it), rule (what it returned, which may be None) and pos  *)
(* (token_i, counted from 1).                                              *)
(***************************************************************************)
ParseFail(pos) == [err |-> TRUE, rule |-> NoneRule, pos |-> pos]

\* token.strip('{}')
RECURSIVE StripBraces(_)
StripBraces(s) ==
    IF s # <<>> /\ s[1] \in {"{", "}"} THEN StripBraces(Tail(s))
    ELSE IF s # <<>> /\ s[Len(s)] \in {"{", "}"} THEN StripBraces(SubSeq(s, 1, Len(s) - 1))
    ELSE s

\* the n and m of a token {...}: err stands for the ValueError of int and
\* of the unpacking of token.split(',')
parse_rule_braces(token) ==
    LET inner == StripBraces(token)
        commas == {i \in DOMAIN inner : inner[i] = ","}
        comma == CHOOSE i \in commas : TRUE
        lhs == ParseInt(SubSeq(inner, 1, comma - 1))
        rhs == SubSeq(inner, comma + 1, Len(inner))
        whole == ParseInt(inner)
    IN  IF commas = {} THEN [err |-> whole.err, n |-> whole.val, m |-> whole.val]
        ELSE IF Cardinality(commas) > 1 THEN [err |-> TRUE, n |-> 0, m |-> 0]
        ELSE IF StrStrip(rhs) = <<>> THEN [err |-> lhs.err, n |-> lhs.val, m |-> NoAtMost]
        ELSE [err |-> lhs.err \/ ParseInt(rhs).err, n |-> lhs.val, m |-> ParseInt(rhs).val]

\* "Handle repetition suffixes"
parse_rule_suffix(tokens, r, pos) ==
    IF pos > Len(tokens) THEN [err |-> FALSE, rule |-> r, pos |-> pos]
    ELSE LET token == tokens[pos]
         IN  IF token \in {<<"?">>, <<"*">>, <<"+">>}
             THEN IF r.kind = "None" THEN ParseFail(pos + 1)
                  ELSE [err |-> FALSE, pos |-> pos + 1,
                        rule |-> IF token = <<"?">> THEN Rule_optionally(r, FALSE)
                                 ELSE IF token = <<"*">> THEN Rule_zero_or_more(r, FALSE)
                                 ELSE Rule_one_or_more(r, FALSE)]
             ELSE IF token[1] = "{"
             THEN Let(parse_rule_braces(token), LAMBDA nm :
                      IF nm.err \/ r.kind = "None" THEN ParseFail(pos + 1)
                      ELSE Let(RepeatRule_init(r, nm.n, nm.m, FALSE), LAMBDA made :
                               IF made.err THEN ParseFail(pos + 1)
                               ELSE [err |-> FALSE, pos |-> pos + 1, rule |-> made.rule]))
             ELSE [err |-> FALSE, rule |-> r, pos |-> pos]

RECURSIVE parse_rule_from(_, _, _)

\* the first part of _parse: a rule in brackets, a piece of interest, or
\* two boards around ->
parse_rule_primary(tokens, pos) ==
    IF pos > Len(tokens) THEN ParseFail(pos)
    ELSE LET token == tokens[pos]
             right == IF pos + 2 <= Len(tokens) THEN tokens[pos + 2] ELSE <<>>
         IN  Let(parse_rule_from(tokens, pos + 1, FALSE), LAMBDA sub :
             IF token = <<"(">>
             THEN IF sub.err THEN sub
                  ELSE IF sub.pos <= Len(tokens) /\ tokens[sub.pos] = <<")">>
                       THEN [err |-> FALSE, rule |-> sub.rule, pos |-> sub.pos + 1]
                       ELSE ParseFail(sub.pos)
             ELSE IF Len(token) = 3 /\ token[3] = ":" /\ token[1] = "%"
             THEN IF sub.err THEN sub
                  ELSE [err |-> FALSE, pos |-> sub.pos,
                        rule |-> PieceOfInterestRule(<<token[2]>>, sub.rule)]
             ELSE IF pos + 1 > Len(tokens) \/ tokens[pos + 1] # <<"-", ">">>
                  THEN ParseFail(pos + 1)
                  ELSE [err |-> FALSE, pos |-> Min2(pos + 3, Len(tokens) + 1),
                        rule |-> FindAndReplaceRule(parse_board(token),
                                                    parse_board(right))])

\* "Handle binary operators on rules": the two nested loops of _parse
RECURSIVE parse_rule_binops(_, _, _)
parse_rule_binops(tokens, r, pos) ==
    IF pos > Len(tokens) THEN [err |-> FALSE, rule |-> r, pos |-> pos]
    ELSE LET token == tokens[pos]
         IN  Let(parse_rule_from(tokens, pos + 1, TRUE), LAMBDA rhs :
             IF token = <<")">> THEN [err |-> FALSE, rule |-> r, pos |-> pos]
             ELSE IF token = <<"(">>
             THEN IF rhs.err THEN rhs
                  ELSE IF ~(rhs.pos <= Len(tokens) /\ tokens[rhs.pos] = <<")">>)
                       THEN ParseFail(rhs.pos)
                  ELSE IF r.kind = "None" THEN ParseFail(rhs.pos + 1)
                  ELSE parse_rule_binops(tokens, Rule_mul(r, rhs.rule), rhs.pos + 1)
             ELSE IF token = <<"|">>
             THEN IF rhs.err THEN rhs
                  ELSE IF r.kind = "None" THEN ParseFail(rhs.pos)
                  ELSE parse_rule_binops(tokens, Rule_or(r, rhs.rule), rhs.pos)
             ELSE [err |-> FALSE, rule |-> NoneRule, pos |-> pos + 1])

\* _parse(no_binops=...)
parse_rule_from(tokens, pos, no_binops) ==
    Let(parse_rule_primary(tokens, pos), LAMBDA prim :
        IF prim.err THEN prim
        ELSE Let(parse_rule_suffix(tokens, prim.rule, prim.pos), LAMBDA suf :
                 IF suf.err THEN suf
                 ELSE IF no_binops THEN suf
                 ELSE parse_rule_binops(tokens, suf.rule, suf.pos)))

parse_rule(t) == parse_rule_from(RuleTokens(t), 1, FALSE)

(***************************************************************************)
(* SpecText: a rule is printed, the text is parsed, and the rule and the   *)
(* parsed rule are called on a board                                       *)
(***************************************************************************)
\* p;r. -> .;rp : the pawn steps up and to the right
Jump ==
    FindAndReplaceRule(<<<<<<0, 0>>, PAWN>>, <<<<1, 1>>, DOT>>>>,
                       <<<<<<0, 0>>, DOT>>, <<<<1, 1>>, PAWN>>>>)

\* [pK] -> u * p : the piece is taken off and a pawn is put over it
Lift ==
    FindAndReplaceRule(<<<<<<0, 0>>, <<"p", "K">>>>>>, <<<<<<0, 1>>, PAWN>>>>)

TextAtoms == {MoveUp(PAWN), MoveUp(PERCENT), Stay, Rule_identity, BadRule, Jump, Lift}

TextBodies == {MoveUp(PAWN), Jump}

TextRules ==
    TextAtoms
    \cup RepeatsOf({MoveUp(PAWN)})
    \cup {Rule_optionally(a, g) : a \in TextBodies, g \in BOOLEAN}
    \cup {Rule_zero_or_more(a, g) : a \in TextBodies, g \in BOOLEAN}
    \cup {Rule_one_or_more(a, g) : a \in TextBodies, g \in BOOLEAN}
    \cup {Rule_pow(a, 2) : a \in TextBodies}
    \cup {Rule_or(a, b) : a \in TextAtoms, b \in TextBodies}
    \cup {Rule_mul(a, b) : a \in TextAtoms, b \in TextBodies}
    \cup {Rule_or(Rule_or(a, Lift), b) : a, b \in TextBodies}
    \cup {Rule_mul(a, Rule_or(Lift, b)) : a, b \in TextBodies}
    \cup {Rule_or(a, Rule_mul(Lift, b)) : a, b \in TextBodies}
    \cup {Rule_mul(Rule_or(a, Lift), b) : a, b \in TextBodies}
    \cup {PieceOfInterestRule(PAWN, a) : a \in TextAtoms}
    \cup {PieceOfInterestRule(PAWN, Rule_between(MoveUp(PERCENT), 1, 2, g)) : g \in BOOLEAN}
    \cup {Rule_zero_or_more(PieceOfInterestRule(PAWN, MoveUp(PERCENT)), g) : g \in BOOLEAN}
    \cup {OneOfRule(<<>>), SequentialRule(<<>>)}

InitText ==
    /\ pc = "start"
    /\ rule \in TextRules
    /\ board \in Boards
    /\ board0 = board
    /\ pattern = <<>>
    /\ move = Movement_identity
    /\ out = Idle
    /\ raw = <<>>
    /\ drule = Rule_identity
    /\ dout = Idle
    /\ st = <<>>
    /\ text = <<>>

\* text = str(rule)
ToText ==
    /\ pc = "start"
    /\ pc' = "printed"
    /\ text' = Rule_str(rule)
    /\ UNCHANGED <<rule, board, board0, move, pattern, out, raw, drule, dout, st>>

\* drule = parse_rule(text), which may raise; st holds what _parse gave
FromText ==
    /\ pc = "printed"
    /\ st' = parse_rule(text)
    /\ pc' = IF st'.err THEN "parse_error" ELSE "parsed"
    /\ drule' = st'.rule
    /\ UNCHANGED <<rule, board, board0, move, pattern, out, raw, dout, text>>

\* rule(board) and drule(board)
Evaluate ==
    /\ pc = "parsed"
    /\ pc' = "evaluated"
    /\ out' = Rule_call(rule, board)
    /\ raw' = out'.raw
    /\ dout' = Rule_call(drule, board)
    /\ UNCHANGED <<rule, board, board0, move, pattern, drule, st, text>>

NextText == ToText \/ FromText \/ Evaluate

SpecText == InitText /\ [][NextText]_vars

\* C2: parse_rule(str(R)) is a rule, and on every board on which R returns
\* it returns the same set of boards
C2_TextRoundTrip ==
    /\ pc # "parse_error"
    /\ (pc = "evaluated" /\ ~out.err) =>
          /\ ~dout.err
          /\ Keys(dout.boards) = Keys(out.boards)

(***************************************************************************)
(* SpecMove: a Movement, its inverse and its power -1 are called on a      *)
(* point.  st holds the point passed first (p0) and the point now held (p).*)
(***************************************************************************)
\* longest list of movements of the Movements that are tried
MaxAtoms == 2

MoveAtoms == {Slide(1, 0), Slide(0, -1), Slide(-2, 1), Rot(1), Rot(2), Rot(3)}

MoveLists == ListsOf(MoveAtoms, MaxAtoms)

Points == (-1..1) \X (-1..1)

InitMove ==
    /\ pc = "start"
    /\ move \in {Movement(ms) : ms \in MoveLists}
    /\ st \in {[p0 |-> p, p |-> p] : p \in Points}
    /\ rule = Rule_identity
    /\ board = <<>>
    /\ board0 = <<>>
    /\ pattern = <<>>
    /\ out = Idle
    /\ raw = <<>>
    /\ drule = Rule_identity
    /\ dout = Idle
    /\ text = <<>>

\* p = m(p)
CallMove ==
    /\ pc \in {"start", "unmoved"}
    /\ pc' = IF pc = "start" THEN "moved" ELSE "redone"
    /\ st' = [st EXCEPT !.p = Movement_call_point(move.movements, st.p, FALSE)]
    /\ UNCHANGED <<rule, board, board0, move, pattern, out, raw, drule, dout, text>>

\* p = (~m)(p)
CallInverse ==
    /\ pc \in {"start", "moved"}
    /\ pc' = IF pc = "start" THEN "unmoved" ELSE "undone"
    /\ st' = [st EXCEPT !.p = Movement_call_point(Movement_invert(move.movements),
                                                  st.p, FALSE)]
    /\ UNCHANGED <<rule, board, board0, move, pattern, out, raw, drule, dout, text>>

\* p = (m ** -1)(p)
CallPow ==
    /\ pc = "start"
    /\ pc' = "powered"
    /\ st' = [st EXCEPT !.p = Movement_call_point(Movement_pow(move.movements, -1),
                                                  st.p, FALSE)]
    /\ UNCHANGED <<rule, board, board0, move, pattern, out, raw, drule, dout, text>>

NextMove == CallMove \/ CallInverse \/ CallPow

SpecMove == InitMove /\ [][NextMove]_vars

\* the list reversed
Reversed(l) == [i \in DOMAIN l |-> l[Len(l) + 1 - i]]

\* C12: (~m)(m(p)) = p and m((~m)(p)) = p, m ** -1 acts as ~m, and ~m is
\* the list of m reversed with each atom negated
C12_MoveInverse ==
    /\ pc \in {"undone", "redone"} => st.p = st.p0
    /\ pc = "powered" =>
          st.p = Movement_call_point(Movement_invert(move.movements), st.p0, FALSE)
    /\ pc \in {"unmoved", "undone"} =>
          Movement_invert(move.movements)
              = Reversed([i \in DOMAIN move.movements |->
                             Movement_reverse(move.movements[i])])

\* what does hold: m ** -1 is ~m, and ~m undoes m when m holds no rotation
C12_InverseOfSlides ==
    /\ pc = "powered" =>
          st.p = Movement_call_point(Movement_invert(move.movements), st.p0, FALSE)
    /\ (pc \in {"undone", "redone"}
            /\ \A i \in DOMAIN move.movements : ~move.movements[i].rot) =>
          st.p = st.p0

(***************************************************************************)
(* SpecParse: a rule text is put together from atoms and counts and read   *)
(* by parse_rule, and a Repeat is made from the two counts.  raw holds     *)
(* what the text is made of: its shape, its atoms and the counts n and m.  *)
(***************************************************************************)
Arrow == <<" ", "-", ">", " ">>

Bar == <<" ", "|", " ">>

Paren(t) == <<"(">> \o t \o <<")">>

\* an atom is the text of its left board and the text of its right board
AtomPairs == {<<PAWN, DOT>>, <<KING, PAWN>>, <<DOT, KING>>}

AtomText(a) == a[1] \o Arrow \o a[2]

AtomRule(a) == FindAndReplaceRule(parse_board(a[1]), parse_board(a[2]))

\* the count as it is written in {n,m}: nothing for None
CountText(m) == IF m = NoAtMost THEN <<>> ELSE NatStr(m)

TextOf(sc) ==
    LET A == AtomText(sc.atoms[1])
        B == AtomText(sc.atoms[2])
        C == AtomText(sc.atoms[3])
        D == AtomText(sc.atoms[4])
    IN  CASE sc.shape = "or_seq" -> Paren(A) \o Bar \o Paren(B) \o Paren(C)
          [] sc.shape = "seq_or_seq" ->
                 Paren(A) \o Paren(B) \o Bar \o Paren(C) \o Paren(D)
          [] sc.shape = "seq_or" -> Paren(A) \o Paren(B) \o Bar \o Paren(C)
          [] sc.shape = "stray_board" -> Paren(A) \o <<" ">> \o sc.atoms[2][1]
          [] sc.shape = "stray_atom" -> Paren(A) \o <<" ">> \o B
          [] sc.shape = "suffix_space" -> Paren(A) \o <<"?", " ">>
          [] sc.shape = "suffix_space_or" -> Paren(A) \o <<"?">> \o Bar \o Paren(B)
          [] sc.shape = "extra_close" -> Paren(A) \o <<")">> \o Bar \o Paren(B)
          [] sc.shape = "unclosed" -> Paren(A) \o <<"(">> \o B
          [] sc.shape = "dangling_bar" -> Paren(A) \o Bar
          [] sc.shape = "no_right" -> sc.atoms[1][1] \o <<" ", "-", ">">>
          [] sc.shape = "no_right_in" -> Paren(sc.atoms[1][1] \o Arrow)
          [] sc.shape = "no_left" -> <<"-", ">", " ">> \o sc.atoms[1][2]
          [] sc.shape = "no_left_in" -> Paren(Arrow \o sc.atoms[1][2])
          [] sc.shape = "braces" ->
                 Paren(A) \o <<"{">> \o NatStr(sc.n) \o <<",">> \o CountText(sc.m)
                     \o <<"}">>

Scene(shape, atoms, n, m) == [shape |-> shape, atoms |-> atoms, n |-> n, m |-> m]

\* the atoms of a text of fewer than four atoms are filled up with the first
FourOf(atoms) == [i \in 1..4 |-> IF i <= Len(atoms) THEN atoms[i] ELSE atoms[1]]

ShapesOf(k) ==
    CASE k = 1 -> {"suffix_space", "dangling_bar", "no_right", "no_right_in",
                   "no_left", "no_left_in"}
      [] k = 2 -> {"stray_board", "stray_atom", "suffix_space_or", "extra_close",
                   "unclosed"}
      [] k = 3 -> {"or_seq", "seq_or"}
      [] k = 4 -> {"seq_or_seq"}

Counts == 0..MaxReps

ParseScenes ==
    UNION {{Scene(sh, FourOf(atoms), 0, 0) :
                sh \in ShapesOf(k), atoms \in [1..k -> AtomPairs]} : k \in 1..4}
    \cup {Scene("braces", FourOf(<<a>>), n, m) :
              a \in AtomPairs, n \in Counts, m \in Counts \cup {NoAtMost}}

InitParse ==
    /\ pc = "start"
    /\ raw \in ParseScenes
    /\ text = TextOf(raw)
    /\ rule = AtomRule(raw.atoms[1])
    /\ board = <<>>
    /\ board0 = <<>>
    /\ pattern = <<>>
    /\ move = Movement_identity
    /\ out = Idle
    /\ drule = Rule_identity
    /\ dout = Idle
    /\ st = [err |-> FALSE, rule |-> NoneRule]

\* drule = parse_rule(text), which may raise; st holds what _parse gave
ParseText ==
    /\ pc = "start"
    /\ st' = parse_rule(text)
    /\ pc' = IF st'.err THEN "parse_error" ELSE "parsed"
    /\ drule' = st'.rule
    /\ UNCHANGED <<rule, board, board0, move, pattern, out, raw, dout, text>>

\* drule = RepeatRule(rule, n, m), which may raise
Construct ==
    /\ pc = "start"
    /\ raw.shape = "braces"
    /\ st' = RepeatRule_init(rule, raw.n, raw.m, FALSE)
    /\ pc' = IF st'.err THEN "type_error" ELSE "made"
    /\ drule' = st'.rule
    /\ UNCHANGED <<rule, board, board0, move, pattern, out, raw, dout, text>>

\* drule = rule.between(n, m), which may raise: between passes its
\* arguments on to RepeatRule
CallBetween ==
    /\ pc = "start"
    /\ raw.shape = "braces"
    /\ st' = RepeatRule_init(rule, raw.n, raw.m, FALSE)
    /\ pc' = IF st'.err THEN "type_error" ELSE "made_between"
    /\ drule' = st'.rule
    /\ UNCHANGED <<rule, board, board0, move, pattern, out, raw, dout, text>>

NextParse == ParseText \/ Construct \/ CallBetween

SpecParse == InitParse /\ [][NextParse]_vars

\* C21: (A) | (B)(C) is read as OneOf[A, Sequence[B, C]] and
\* (A)(B) | (C)(D) as OneOf[Sequence[A, B], Sequence[C, D]], for all atoms
C21_Precedence ==
    LET A == AtomRule(raw.atoms[1])
        B == AtomRule(raw.atoms[2])
        C == AtomRule(raw.atoms[3])
        D == AtomRule(raw.atoms[4])
    IN  /\ (pc # "start" /\ raw.shape = "or_seq") =>
              /\ pc = "parsed"
              /\ drule = OneOfRule(<<A, SequentialRule(<<B, C>>)>>)
        /\ (pc # "start" /\ raw.shape = "seq_or_seq") =>
              /\ pc = "parsed"
              /\ drule = OneOfRule(<<SequentialRule(<<A, B>>), SequentialRule(<<C, D>>)>>)

\* what does hold: | and the rule in brackets that follows a rule are taken
\* from left to right, each with the one rule to its right
C21_LeftToRight ==
    LET A == AtomRule(raw.atoms[1])
        B == AtomRule(raw.atoms[2])
        C == AtomRule(raw.atoms[3])
        D == AtomRule(raw.atoms[4])
    IN  /\ (pc # "start" /\ raw.shape = "or_seq") =>
              /\ pc = "parsed"
              /\ drule = SequentialRule(<<OneOfRule(<<A, B>>), C>>)
        /\ (pc # "start" /\ raw.shape = "seq_or_seq") =>
              /\ pc = "parsed"
              /\ drule = SequentialRule(<<OneOfRule(<<SequentialRule(<<A, B>>), C>>), D>>)
        /\ (pc # "start" /\ raw.shape = "seq_or") =>
              /\ pc = "parsed"
              /\ drule = OneOfRule(<<SequentialRule(<<A, B>>), C>>)

\* the texts that are no rule: a token that cannot follow, or the end of the
\* text in the middle of a rule
MalformedShapes ==
    {"stray_board", "stray_atom", "suffix_space", "suffix_space_or", "extra_close",
     "unclosed", "dangling_bar"}

\* C22: parse_rule raises on a text that is no rule, and what parse_rule
\* returns is a rule
C22_MalformedIsError ==
    /\ (pc \in {"parsed", "parse_error"} /\ raw.shape \in MalformedShapes) =>
          pc = "parse_error"
    /\ pc = "parsed" => drule.kind # "None"

\* what does hold: the end of the text in the middle of a rule raises, a
\* token that cannot follow makes parse_rule return None, and after a ) that
\* closes nothing the rule read so far is returned
C22_EndOfTextRaises ==
    /\ (pc \in {"parsed", "parse_error"} /\ raw.shape \in {"unclosed", "dangling_bar"}) =>
          pc = "parse_error"
    /\ (pc \in {"parsed", "parse_error"}
            /\ raw.shape \in {"stray_board", "stray_atom", "suffix_space",
                              "suffix_space_or"}) =>
          pc = "parsed" /\ drule = NoneRule
    /\ (pc \in {"parsed", "parse_error"} /\ raw.shape = "extra_close") =>
          pc = "parsed" /\ drule = AtomRule(raw.atoms[1])

\* C26: a side of -> that is empty is read as the empty board, at the top
\* level and in brackets: p -> and (p -> ) give the pattern p and the
\* replacement {}, -> p and ( -> p) the pattern {} and the replacement p
C26_EmptySides ==
    /\ (pc \in {"parsed", "parse_error"} /\ raw.shape \in {"no_right", "no_right_in"}) =>
          /\ pc = "parsed"
          /\ drule = FindAndReplaceRule(parse_board(raw.atoms[1][1]), <<>>)
    /\ (pc \in {"parsed", "parse_error"} /\ raw.shape \in {"no_left", "no_left_in"}) =>
          /\ pc = "parsed"
          /\ drule = FindAndReplaceRule(<<>>, parse_board(raw.atoms[1][2]))

\* what does hold: the right side may be empty at the end of the text; in
\* brackets, and for an empty left side, parse_rule raises
C26_EmptyRightAtEnd ==
    /\ (pc \in {"parsed", "parse_error"} /\ raw.shape = "no_right") =>
          /\ pc = "parsed"
          /\ drule = FindAndReplaceRule(parse_board(raw.atoms[1][1]), <<>>)
    /\ (pc \in {"parsed", "parse_error"}
            /\ raw.shape \in {"no_right_in", "no_left", "no_left_in"}) =>
          pc = "parse_error"

\* every Repeat of the rule has at_most = None or at_most >= at_least
RECURSIVE BoundsHold(_)
BoundsHold(r) ==
    /\ r.kind = "Repeat" => (r.at_most = NoAtMost \/ r.at_most >= r.at_least)
    /\ \A i \in DOMAIN r.rules : BoundsHold(r.rules[i])

\* C24: RepeatRule(rule, n, m), rule.between(n, m) and parse_rule of
\* (rule){n,m} raise when m is set and m < n, and no rule is made; otherwise
\* the Repeat with these bounds is made; every Repeat that was made has
\* at_most = None or at_most >= at_least
C24_RepeatBounds ==
    (pc # "start" /\ raw.shape = "braces") =>
        IF raw.m # NoAtMost /\ raw.m < raw.n
        THEN pc \in {"parse_error", "type_error"} /\ st.err /\ drule = NoneRule
        ELSE /\ pc \in {"parsed", "made", "made_between"}
             /\ drule = RepeatRule(rule, raw.n, raw.m, FALSE)
             /\ BoundsHold(drule)

C24_Witness ==
    /\ pc = "parse_error"
    /\ raw.shape = "braces"
    /\ raw.n = 2
    /\ raw.m = 1

(***************************************************************************)
(* SpecBoard: a board is printed by board_repr and the text is read by     *)
(* parse_board.  st holds the board that was read.                         *)
(***************************************************************************)
\* most squares of the boards that are printed
MaxSquares == 2

SquareKeys == (-1..1) \X (-1..1)

\* the empty marker, a piece, a class, a negated class, and the pieces r
\* and 0
SquareContents == {DOT, PAWN, <<".", "p">>, <<"^", "K">>, <<"r">>, <<"0">>}

PrintedBoards ==
    {d \in ListsOf(SquareKeys \X SquareContents, MaxSquares) : HasNoKeyTwice(d)}

InitBoard ==
    /\ pc = "start"
    /\ board \in PrintedBoards
    /\ board0 = board
    /\ st = <<>>
    /\ text = <<>>
    /\ rule = Rule_identity
    /\ pattern = <<>>
    /\ move = Movement_identity
    /\ out = Idle
    /\ raw = <<>>
    /\ drule = Rule_identity
    /\ dout = Idle

\* text = board_repr(board)
PrintBoard ==
    /\ pc = "start"
    /\ pc' = "printed"
    /\ text' = board_repr(board)
    /\ UNCHANGED <<rule, board, board0, move, pattern, out, raw, drule, dout, st>>

\* st = parse_board(text)
ReadBoard ==
    /\ pc = "printed"
    /\ pc' = "read"
    /\ st' = parse_board(text)
    /\ UNCHANGED <<rule, board, board0, move, pattern, out, raw, drule, dout, text>>

NextBoard == PrintBoard \/ ReadBoard

SpecBoard == InitBoard /\ [][NextBoard]_vars

\* C25: parse_board(board_repr(b)) = b for every board b, and the empty
\* board is printed as 0 and read back as the empty board
C25_BoardRoundTrip ==
    /\ pc = "read" => get_board_key(st) = get_board_key(board)
    /\ (pc = "printed" /\ board = <<>>) => text = <<"0">>

\* the characters that parse_board reads as a step, and not as a piece
StepChars == {" ", "1", "0", "u", "d", "l", "r", ";", "[", "*"}

\* what does hold: a board is read back when none of its squares holds a
\* single character that parse_board reads as a step
C25_RoundTripOfPieces ==
    /\ (pc = "read" /\ \A i \in DOMAIN board :
                           ~(Len(board[i][2]) = 1 /\ board[i][2][1] \in StepChars)) =>
          get_board_key(st) = get_board_key(board)
    /\ (pc = "printed" /\ board = <<>>) => text = <<"0">>

(***************************************************************************)
(* SpecPlay: play_game of playalgchess.py.  rule is game.rule, board the   *)
(* board of the game, board0 game.initial_board, and st holds the locals   *)
(* of play_game: the cursor cx, cy, turn_no, next_boards,                  *)
(* selected_locations, the three collections of update_selectable_boards, *)
(* board_i and selected_board (None, or a list of the one value) and the   *)
(* key read last.  What is rendered is not part of the state.  pc is       *)
(* "turn" at the top of the outer loop, "render" at the top of the loop    *)
(* while not selected, "keys" in the loop over the keys, and "over" after  *)
(* the outer loop; "raised" and "index_error" stand for an exception of    *)
(* rule(board) and the IndexError of selectable_boards[board_i].           *)
(***************************************************************************)
\* the turns after which a game is left
MaxTurns == 3

\* the most locations that are selected in a turn
MaxSelected == 1

ENTER == "<Ctrl-j>"

\* board_diff as the set of its locations
board_diff(b1, b2) ==
    {b1[i][1] : i \in {j \in DOMAIN b1 : DictGet(b2, b1[j][1], NoneVal) # b1[j][2]}}
    \cup {k \in DictKeys(b2) : ~DictHas(b1, k)}

\* the three collections update_selectable_boards fills
update_selectable_boards(b, next_boards, selected_locations, cp) ==
    LET is_selectable(next_board) ==
            /\ selected_locations # {}
            /\ selected_locations \subseteq board_diff(b, next_board)
        adjacent(next_board) ==
            /\ selected_locations = {} \/ is_selectable(next_board)
            /\ cp \in board_diff(b, next_board)
    IN  Let(SelectSeq(next_boards, adjacent), LAMBDA near :
            [selectable_boards |-> SelectSeq(next_boards, is_selectable),
             cursor_adjacent_boards |-> near,
             cursor_adjacent_locations |->
                 UNION {board_diff(b, near[i]) : i \in DOMAIN near}])

\* the locals after update_selectable_boards()
Updated(s, b) ==
    Let(update_selectable_boards(b, s.next_boards, s.selected_locations, <<s.cx, s.cy>>),
        LAMBDA u :
        [s EXCEPT !.selectable_boards = u.selectable_boards,
                  !.cursor_adjacent_boards = u.cursor_adjacent_boards,
                  !.cursor_adjacent_locations = u.cursor_adjacent_locations])

\* l[i] of a Python list raises IndexError
IndexFails(l, i) == i >= Len(l) \/ i < 0 - Len(l)

\* l[i] of a Python list, i counted from 0, or from the end when negative
ListGet(l, i) == IF i >= 0 THEN l[i + 1] ELSE l[Len(l) + i + 1]

\* a mutant of selected_board_of: with no board to choose, the board that
\* is displayed is the choice
selected_board_displayed(s, b) ==
    IF s.board_i # NoneVal THEN <<ListGet(s.selectable_boards, s.board_i[1])>>
    ELSE IF Len(s.selectable_boards) = 1 THEN <<s.selectable_boards[1]>>
    ELSE IF Len(s.cursor_adjacent_boards) = 1 THEN <<s.cursor_adjacent_boards[1]>>
    ELSE <<b>>

\* "Determine selected_board"
selected_board_of(s, b) ==
    IF s.board_i # NoneVal THEN <<ListGet(s.selectable_boards, s.board_i[1])>>
    ELSE IF Len(s.selectable_boards) = 1 THEN <<s.selectable_boards[1]>>
    ELSE IF Len(s.cursor_adjacent_boards) = 1 THEN <<s.cursor_adjacent_boards[1]>>
    ELSE NoneVal

\* a mutant of next_board_i: the index is not taken modulo the length
next_board_i_unwrapped(board_i, selectable_boards, step) ==
    IF selectable_boards = <<>> THEN board_i
    ELSE IF board_i = NoneVal THEN <<0>>
    ELSE <<board_i[1] + step>>

\* board_i after <PAGEUP> (step 1) and <PAGEDOWN> (step -1)
next_board_i(board_i, selectable_boards, step) ==
    IF selectable_boards = <<>> THEN board_i
    ELSE IF board_i = NoneVal THEN <<0>>
    ELSE <<(board_i[1] + step) % Len(selectable_boards)>>

\* p . / . . : the pawn steps up, or up and to the right
PawnGame == OneOfRule(<<MoveUp(PAWN), Jump>>)

\* two columns of MaxY + 1 squares, a pawn at the bottom of the columns xs
PlayBoard(xs) ==
    [i \in 1..(2 * (MaxY + 1)) |->
        LET x == (i - 1) % 2
            y == (i - 1) \div 2
        IN  <<<<x, y>>, IF y = 0 /\ x \in xs THEN PAWN ELSE DOT>>]

PlayGames ==
    {<<PawnGame, PlayBoard({0, 1})>>, <<PawnGame, PlayBoard({0})>>,
     <<MoveUp(PAWN), PlayBoard({1})>>, <<Bounce, BounceBoard(1, UP)>>,
     <<Stay, PlayBoard({0})>>, <<BadRule, PlayBoard({0})>>,
     <<MoveUp(PAWN), PlayBoard({})>>}

NoPlayLocals ==
    [cx |-> 0, cy |-> 0, turn_no |-> 1, next_boards |-> <<>>,
     selected_locations |-> {}, selectable_boards |-> <<>>,
     cursor_adjacent_boards |-> <<>>, cursor_adjacent_locations |-> {},
     board_i |-> NoneVal, selected_board |-> NoneVal, key |-> NoneVal]

InitPlay ==
    /\ pc = "turn"
    /\ \E game \in PlayGames : rule = game[1] /\ board = game[2]
    /\ board0 = board
    /\ st = NoPlayLocals
    /\ pattern = <<>>
    /\ move = Movement_identity
    /\ out = Idle
    /\ raw = <<>>
    /\ drule = Rule_identity
    /\ dout = Idle
    /\ text = <<>>

\* the cursor is kept on the squares of the first board
OnBoard(x, y) ==
    LET bb == get_board_bounds(board0)
    IN  bb[1] <= x /\ x <= bb[3] /\ bb[2] <= y /\ y <= bb[4]

\* there is room for the location of the cursor in selected_locations
CanSelect ==
    <<st.cx, st.cy>> \in st.selected_locations
        \/ Cardinality(st.selected_locations) < MaxSelected

\* the top of while True: next_boards = rule(board), the game is over when
\* there is none, and the locals of the turn are set
StartTurn ==
    /\ pc = "turn"
    /\ st.turn_no <= MaxTurns
    /\ out' = Rule_call(rule, board)
    /\ raw' = out'.raw
    /\ board' = out'.inb
    /\ pc' = IF out'.err THEN "raised"
             ELSE IF out'.boards = <<>> THEN "over"
             ELSE "render"
    /\ st' = IF out'.err THEN st
             ELSE IF out'.boards = <<>> THEN [st EXCEPT !.next_boards = <<>>]
             ELSE Updated([st EXCEPT !.next_boards = out'.boards,
                                     !.selected_locations = {},
                                     !.board_i = NoneVal], board')
    /\ UNCHANGED <<rule, board0, move, pattern, drule, dout, text>>

\* the top of while not selected: selected_board is determined
Render ==
    /\ pc = "render"
    /\ IF st.board_i # NoneVal /\ IndexFails(st.selectable_boards, st.board_i[1])
       THEN pc' = "index_error" /\ st' = st
       ELSE pc' = "keys" /\ st' = [st EXCEPT !.selected_board = selected_board_of(st, board)]
    /\ UNCHANGED <<rule, board, board0, move, pattern, out, raw, drule, dout, text>>

\* the locals after a key that moves the cursor to (x, y)
CursorMoved(key, x, y) ==
    [Updated([st EXCEPT !.key = key, !.cx = x, !.cy = y], board) EXCEPT !.board_i = NoneVal]

KeyLeft ==
    /\ pc = "keys"
    /\ OnBoard(st.cx - 1, st.cy)
    /\ st' = CursorMoved("<LEFT>", st.cx - 1, st.cy)
    /\ pc' = "render"
    /\ UNCHANGED <<rule, board, board0, move, pattern, out, raw, drule, dout, text>>

KeyRight ==
    /\ pc = "keys"
    /\ OnBoard(st.cx + 1, st.cy)
    /\ st' = CursorMoved("<RIGHT>", st.cx + 1, st.cy)
    /\ pc' = "render"
    /\ UNCHANGED <<rule, board, board0, move, pattern, out, raw, drule, dout, text>>

KeyUp ==
    /\ pc = "keys"
    /\ OnBoard(st.cx, st.cy + 1)
    /\ st' = CursorMoved("<UP>", st.cx, st.cy + 1)
    /\ pc' = "render"
    /\ UNCHANGED <<rule, board, board0, move, pattern, out, raw, drule, dout, text>>

KeyDown ==
    /\ pc = "keys"
    /\ OnBoard(st.cx, st.cy - 1)
    /\ st' = CursorMoved("<DOWN>", st.cx, st.cy - 1)
    /\ pc' = "render"
    /\ UNCHANGED <<rule, board, board0, move, pattern, out, raw, drule, dout, text>>

KeyEsc ==
    /\ pc = "keys"
    /\ st' = [Updated([st EXCEPT !.key = "<ESC>", !.selected_locations = {}], board)
                 EXCEPT !.board_i = NoneVal]
    /\ pc' = "render"
    /\ UNCHANGED <<rule, board, board0, move, pattern, out, raw, drule, dout, text>>

\* the locals after selected_locations.add((cx, cy)) and
\* update_selectable_boards()
LocationAdded(key) ==
    Updated([st EXCEPT !.key = key,
                       !.selected_locations = @ \cup {<<st.cx, st.cy>>}], board)

KeyPageUp ==
    /\ pc = "keys"
    /\ CanSelect
    /\ st' = Let(LocationAdded("<PAGEUP>"), LAMBDA s :
                 [s EXCEPT !.board_i = next_board_i(st.board_i, s.selectable_boards, 1)])
    /\ pc' = "render"
    /\ UNCHANGED <<rule, board, board0, move, pattern, out, raw, drule, dout, text>>

KeyPageDown ==
    /\ pc = "keys"
    /\ CanSelect
    /\ st' = Let(LocationAdded("<PAGEDOWN>"), LAMBDA s :
                 [s EXCEPT !.board_i = next_board_i(st.board_i, s.selectable_boards, -1)])
    /\ pc' = "render"
    /\ UNCHANGED <<rule, board, board0, move, pattern, out, raw, drule, dout, text>>

\* Enter takes the selected board, which ends the turn (turn_no += 1), or
\* selects the location of the cursor
KeyEnter ==
    /\ pc = "keys"
    /\ IF st.selected_board # NoneVal
       THEN /\ board' = st.selected_board[1]
            /\ st' = [st EXCEPT !.key = ENTER, !.turn_no = @ + 1]
            /\ pc' = "turn"
       ELSE /\ CanSelect
            /\ board' = board
            /\ st' = [LocationAdded(ENTER) EXCEPT !.board_i = NoneVal]
            /\ pc' = "render"
    /\ UNCHANGED <<rule, board0, move, pattern, out, raw, drule, dout, text>>

\* any other key is read and the loop over the keys goes on
KeyOther ==
    /\ pc = "keys"
    /\ st' = [st EXCEPT !.key = "x"]
    /\ pc' = "keys"
    /\ UNCHANGED <<rule, board, board0, move, pattern, out, raw, drule, dout, text>>

NextPlay ==
    \/ StartTurn
    \/ Render
    \/ KeyLeft
    \/ KeyRight
    \/ KeyUp
    \/ KeyDown
    \/ KeyEsc
    \/ KeyPageUp
    \/ KeyPageDown
    \/ KeyEnter
    \/ KeyOther

SpecPlay == InitPlay /\ [][NextPlay]_vars

\* the step is Enter pressed with a selected board
Commits == pc = "keys" /\ st'.key = ENTER /\ st.selected_board # NoneVal

\* C28: the board changes, and turn_no changes, only when Enter is pressed
\* with a selected board; the board is then one of next_boards, which is
\* rule(board) for the board of the turn, and turn_no is one more; the loop
\* is left only when rule(board) is empty
C28_LegalMoves ==
    [][/\ (board' # board \/ st'.turn_no # st.turn_no) => Commits
       /\ Commits =>
             /\ \E i \in DOMAIN st.next_boards : board' = st.next_boards[i]
             /\ ~Rule_call(rule, board).err
             /\ st.next_boards = Rule_call(rule, board).boards
             /\ st'.turn_no = st.turn_no + 1
             /\ pc' = "turn"
       /\ pc' = "over" => (~out'.err /\ Rule_call(rule, board').boards = <<>>)
       /\ pc' = "raised" => Rule_call(rule, board').err
       /\ pc' # "index_error"]_vars

\* a game was played to its end: boards were taken and no move is left
C28_Witness ==
    /\ pc = "over"
    /\ st.turn_no > 2
    /\ st.key = ENTER
    /\ board # board0
    /\ rule = PawnGame

ResetKeys == {"<LEFT>", "<RIGHT>", "<UP>", "<DOWN>", "<ESC>"}

\* C29: where selectable_boards[board_i] is read, 0 <= board_i <
\* len(selectable_boards); the arrows and Esc set board_i to None; PgUp and
\* PgDn step board_i modulo len(selectable_boards)
C29_IndexInvariant ==
    /\ [](/\ pc # "index_error"
          /\ (pc = "render" /\ st.board_i # NoneVal) =>
                (0 <= st.board_i[1] /\ st.board_i[1] < Len(st.selectable_boards)))
    /\ [][/\ (pc = "keys" /\ pc' = "render" /\ st'.key \in ResetKeys) =>
                st'.board_i = NoneVal
          /\ (pc = "keys" /\ pc' = "render" /\ st'.key \in {"<PAGEUP>", "<PAGEDOWN>"}
                  /\ st'.selectable_boards # <<>>) =>
                st'.board_i
                    = IF st.board_i = NoneVal THEN <<0>>
                      ELSE <<(st.board_i[1] + (IF st'.key = "<PAGEUP>" THEN 1 ELSE -1))
                                 % Len(st'.selectable_boards)>>]_vars

\* PgDn went from the first of two boards round to the second
C29_Witness ==
    /\ pc = "render"
    /\ st.key = "<PAGEDOWN>"
    /\ Len(st.selectable_boards) = 2
    /\ st.board_i = <<1>>

(***************************************************************************)
(* _player_choice and play_game of algchess.py.  The player's answers are  *)
(* not fixed: _player_choice is modelled by the set of the results it can  *)
(* end with, over all answers.  A result is a record: kind is "board" (the *)
(* board returned), "none" (None returned), "value_error" (the ValueError  *)
(* of find) or "attribute_error" (get_board_key(None)).                    *)
(***************************************************************************)
Returns(b) == [kind |-> "board", board |-> b]

ReturnsNone == [kind |-> "none", board |-> <<>>]

Raises(kind) == [kind |-> kind, board |-> <<>>]

RECURSIVE Rule_player_choice(_, _)

\* get_player_choice returns None for no choice, and any of the choices
FindAndReplaceRule_player_choice(r, b) ==
    IF r.pattern = <<>> /\ r.replacement = <<>> THEN {Returns(b)}
    ELSE Let(find(r.pattern, b), LAMBDA found :
             IF found.err THEN {Raises("value_error")}
             ELSE IF found.moves = <<>> THEN {ReturnsNone}
             ELSE {Returns(find_and_replace_at(r.pattern, r.replacement, b,
                                               found.moves[i])) :
                      i \in DOMAIN found.moves})

\* the rules to choose from are those with rule(board) not empty
OneOfRule_player_choice(r, b) ==
    Let([i \in DOMAIN r.rules |-> Rule_call(r.rules[i], b)], LAMBDA calls :
        IF \E i \in DOMAIN calls : calls[i].err THEN {Raises("value_error")}
        ELSE Let({i \in DOMAIN calls : calls[i].boards # <<>>}, LAMBDA rules :
                 IF rules = {} THEN {ReturnsNone}
                 ELSE UNION {Rule_player_choice(r.rules[i], b) : i \in rules}))

\* the loop of SequentialRule._player_choice from the result res on
RECURSIVE SequentialRule_player_choice_from(_, _)
SequentialRule_player_choice_from(rules, res) ==
    IF rules = <<>> \/ res.kind # "board" THEN {res}
    ELSE UNION {SequentialRule_player_choice_from(Tail(rules), next) :
                   next \in Rule_player_choice(Head(rules), res.board)}

SequentialRule_player_choice(r, b) == SequentialRule_player_choice_from(r.rules, Returns(b))

\* the locations to choose from are those of the piece at which
\* _apply_at gives a board
PieceOfInterestRule_player_choice(r, b) ==
    IF \E i \in DOMAIN b : b[i][2] = PERCENT
    THEN Rule_player_choice(r.rules[1], b)
    ELSE Let({i \in DOMAIN b : b[i][2] = r.piece}, LAMBDA held :
         Let([i \in held |-> PieceOfInterestRule_apply_at(r, b, b[i][1])], LAMBDA calls :
             IF \E i \in held : calls[i].err THEN {Raises("value_error")}
             ELSE Let({i \in held : calls[i].boards # <<>>}, LAMBDA locations :
                      IF locations = {} THEN {ReturnsNone}
                      ELSE UNION {{IF res.kind = "board"
                                   THEN Returns(replace_piece(PERCENT, r.piece, res.board))
                                   ELSE res :
                                      res \in Rule_player_choice(r.rules[1],
                                                  DictSet(b, b[i][1], PERCENT))} :
                                  i \in locations})))

\* the loop of RepeatRule._player_choice after board =
\* self.rule._player_choice(board): get_board_key(board) raises for None,
\* and a board met before leaves the loop
RepeatRule_player_choice_after(res, board_keys) ==
    IF res.kind = "none" THEN [ends |-> TRUE, res |-> Raises("attribute_error")]
    ELSE IF res.kind # "board" THEN [ends |-> TRUE, res |-> res]
    ELSE [ends |-> get_board_key(res.board) \in board_keys, res |-> res]

\* the while loop of RepeatRule._player_choice at its top, board not None
RECURSIVE RepeatRule_player_choice_loop(_, _, _, _)
RepeatRule_player_choice_loop(r, b, i, board_keys) ==
    IF i >= r.at_least /\ r.at_most # NoAtMost /\ i >= r.at_most THEN {Returns(b)}
    ELSE Let(IF i >= r.at_least THEN Rule_call(r.rules[1], b) ELSE Idle, LAMBDA call :
             IF i >= r.at_least /\ call.err THEN {Raises("value_error")}
             ELSE IF i >= r.at_least /\ call.boards = <<>> THEN {Returns(b)}
             ELSE (IF i >= r.at_least /\ ~r.greedy THEN {Returns(b)} ELSE {})
                  \cup UNION {Let(RepeatRule_player_choice_after(res, board_keys),
                                  LAMBDA after :
                                  IF after.ends THEN {after.res}
                                  ELSE RepeatRule_player_choice_loop(r, res.board, i + 1,
                                           board_keys \cup {get_board_key(res.board)})) :
                                 res \in Rule_player_choice(r.rules[1], b)})

RepeatRule_player_choice(r, b) ==
    RepeatRule_player_choice_loop(r, b, 0, {get_board_key(b)})

Rule_player_choice(r, b) ==
    CASE r.kind = "FindAndReplace" -> FindAndReplaceRule_player_choice(r, b)
      [] r.kind = "OneOf" -> OneOfRule_player_choice(r, b)
      [] r.kind = "Sequential" -> SequentialRule_player_choice(r, b)
      [] r.kind = "PieceOfInterest" -> PieceOfInterestRule_player_choice(r, b)
      [] r.kind = "Repeat" -> RepeatRule_player_choice(r, b)

(***************************************************************************)
(* SpecChoice: play_game of algchess.py.  st holds turn_no and whether     *)
(* board is None; pc is "turn" at the top of the loop, "over" after it,    *)
(* and the kind of the exception that left play_game.                      *)
(***************************************************************************)
\* the pawn steps up or to the upper right, and then to the upper right
StepAndJump == SequentialRule(<<PawnGame, Jump>>)

ChoiceRules ==
    Rules
    \cup {PawnGame, StepAndJump, pawn_move_twice_rule}
    \cup RepeatsOf({PawnGame, StepAndJump, Bounce})

ChoiceBoards == Boards \cup {PlayBoard({0}), PlayBoard({0, 1}), BounceBoard(1, UP)}

InitChoice ==
    /\ pc = "turn"
    /\ rule \in ChoiceRules
    /\ board \in ChoiceBoards
    /\ board0 = board
    /\ st = [turn_no |-> 1, none |-> FALSE]
    /\ pattern = <<>>
    /\ move = Movement_identity
    /\ out = Idle
    /\ raw = <<>>
    /\ drule = Rule_identity
    /\ dout = Idle
    /\ text = <<>>

\* board = rule._player_choice(board); turn_no += 1
TakeTurn ==
    /\ pc = "turn"
    /\ ~st.none
    /\ st.turn_no <= MaxTurns
    /\ \E res \in Rule_player_choice(rule, board) :
        /\ pc' = IF res.kind \in {"board", "none"} THEN "turn" ELSE res.kind
        /\ board' = IF res.kind = "board" THEN res.board ELSE board
        /\ st' = IF res.kind \in {"board", "none"}
                 THEN [turn_no |-> st.turn_no + 1, none |-> res.kind = "none"]
                 ELSE st
    /\ UNCHANGED <<rule, board0, move, pattern, out, raw, drule, dout, text>>

\* if board is None: print("Out of options! Game over."); break
GameOver ==
    /\ pc = "turn"
    /\ st.none
    /\ pc' = "over"
    /\ UNCHANGED <<rule, board, board0, move, pattern, out, raw, drule, dout, st, text>>

NextChoice == TakeTurn \/ GameOver

SpecChoice == InitChoice /\ [][NextChoice]_vars

\* the rule holds a Repeat
RECURSIVE HasRepeat(_)
HasRepeat(r) == r.kind = "Repeat" \/ \E i \in DOMAIN r.rules : HasRepeat(r.rules[i])

\* C30: _player_choice returns None when the choices end where no move
\* applies, for every kind of rule: no exception comes of a None that the
\* _player_choice of a rule's body returned
C30_DeadEndIsNone == pc # "attribute_error"

\* what does hold: the exception comes of a Repeat only
C30_DeadEndWithoutRepeat == pc = "attribute_error" => HasRepeat(rule)

=============================================================================
